---------------------------- MODULE Spec2Model ----------------------------
(***************************************************************************)
(* The APPO learner (algorithms/appo/learner.py, class LearnerWorker) as a *)
(* state machine: the coordinator thread (_run), the training thread       *)
(* (_train_loop), the shared trajectory slots with their readiness bits,   *)
(* the experience queue with its back-pressure event, the checkpoint       *)
(* directory and the PBT requests latched by the coordinator.  The learner *)
(* runs with train_in_background = True.                                   *)
(*                                                                         *)
(* The rollout worker, the PBT controller and the schedule LinearDecay are *)
(* not part of learner.py; they are modelled from the specification and    *)
(* are marked so in the model map.                                         *)
(***************************************************************************)
EXTENDS Integers, Sequences, FiniteSets, TLC

(***************************************************************************)
(* Bounds of the model.                                                    *)
(***************************************************************************)
\* number of trajectory slots (env_idx values) the rollout worker owns
NumSlots == 3
\* total number of rollouts the rollout worker produces in one run
MaxRollouts == 4
\* total number of rollouts in a run that explores the values of kl_coeff or
\* the order of PBT requests (SpecKl, SpecLatch)
MaxKlRollouts == 2
\* total number of PBT requests the controller sends in one run
MaxPbtTasks == 2
\* total number of PBT requests in a run that studies one request at a time
MaxLonePbtTasks == 1
\* total number of rollouts in a run that saves, trains on and loads back
MaxRestoreRollouts == 3
\* the largest experience_size handed to _get_minibatches
MaxExperienceSize == 6
\* the largest cfg.recurrence
MaxRecurrence == 3
\* INIT_TENSORS messages of the rollout worker waiting in the task queue
MaxPendingRegistrations == 1
\* the largest rollout length handed to _calculate_gae
MaxGaeLength == 4
\* the train_step of the last checkpoint another learner writes
MaxOtherTrainStep == 2
\* seconds that pass in a run that samples the discarded rollouts
MaxClock == 4
\* total number of rollouts in such a run
MaxRateRollouts == 2

(***************************************************************************)
(* Configuration (self.cfg) and fixed identities.                          *)
(***************************************************************************)
policy_id == 0
OtherPolicies == {1}
cfg_rollout == 2
cfg_batch_size == 2
cfg_ppo_epochs == 1
cfg_max_policy_lag == 2
cfg_keep_checkpoints == 2
\* target_kl in units of 1e-3 (0.01)
cfg_target_kl == 10
\* deque([], maxlen=30) (line 79)
WindowMaxLen == 30

Slots == 1..NumSlots

(***************************************************************************)
(* kl_coeff is a rational <<num, den>> in units of 1e-6, kept reduced.     *)
(***************************************************************************)
RECURSIVE Gcd(_, _)
Gcd(a, b) == IF b = 0 THEN a ELSE Gcd(b, a % b)

Rat(n, d) ==
    LET g == Gcd(IF n < 0 THEN -n ELSE n, d)
    IN  IF g = 0 THEN <<0, 1>> ELSE <<n \div g, d \div g>>

RatLt(a, b) == a[1] * b[2] < b[1] * a[2]
RatGeq(a, b) == ~RatLt(a, b)
RatMax(a, b) == IF RatLt(a, b) THEN b ELSE a

\* the floor 1e-6 of line 587
KlFloor == <<1, 1>>

VARIABLES
    \* ---- learner object (LearnerWorker.__init__) ----
    train_step,                 \* self.train_step
    env_steps,                  \* self.env_steps
    kl_coeff,                   \* self.kl_coeff
    cfg,                        \* the mutable part of self.cfg
    model,                      \* actor_critic + optimizer state (abstract)
    optimizer_lr,               \* optimizer.param_groups[*]['lr']
    should_save_model,          \* self.should_save_model
    load_policy_id,             \* self.load_policy_id (NoPolicy is None)
    new_cfg,                    \* self.new_cfg (NoCfg is None)
    terminate,                  \* self.terminate
    last_saved,                 \* self.last_saved
    model_saved_event,          \* self.model_saved_event
    num_discarded_rollouts,     \* self.num_discarded_rollouts
    rollout_tensors,            \* self.rollout_tensors: slot key -> tensor handle
    traj_buffer_ready,          \* self.traj_buffer_ready[(worker, split)]
    experience_buffer_queue,    \* self.experience_buffer_queue
    train_thread_initialized,   \* threading.Event
    processing_experience_batch,\* threading.Event
    task_queue,                 \* self.task_queue
    policy_worker_queue,        \* messages put on one policy-worker queue
    report_queue,               \* messages put on the report queue
    \* ---- coordinator thread (_run) ----
    cpc,                        \* position in _run
    rollouts,                   \* the local pending list of _run
    \* ---- training thread (_train_loop) ----
    tpc,                        \* position in _train_loop
    data,                       \* the tuple returned by safe_get
    stats,                      \* the stats dict of _process_training_data
    sgd_steps,                  \* optimizer steps done in the current _train
    kl_old_mean,                \* KL measured by the last minibatch
    \* ---- file system ----
    checkpoints,                \* files checkpoint_* of this policy
    other_checkpoints,          \* files checkpoint_* of the other policies
    tmp_checkpoint,             \* file checkpoint_tmp of the other policies
    \* ---- rollout worker and shared memory ----
    slot_version,               \* min policy_version stamped in each slot
    filling,                    \* slots the rollout worker reclaimed
    \* ---- history ----
    num_rollouts,               \* rollouts produced so far
    num_pbt_tasks,              \* PBT requests sent so far
    num_batches,                \* macro-batches enqueued so far
    trained,                    \* the batches handed to _process_training_data
    saved,                      \* the checkpoints written by _save, in order
    initial_checkpoints,        \* the files found at start-up
    terminate_sent,             \* close() was called
    save_requested,             \* SAVE_MODEL was processed, no _save since
    \* ---- a call of _get_minibatches ----
    minibatch_args,             \* experience_size and the cfg fields it reads
    minibatches,                \* what the call returned or raised
    \* ---- a call of _calculate_gae ----
    gae_args,                   \* rewards, dones, values of the rollouts, gamma, gae_lambda
    gae_buffer,                 \* the advantages and returns the call stored
    \* ---- _process_macro_batch, step by step ----
    batch_rollouts,             \* the rollouts of the macro-batch being assembled
    buffer,                     \* the experience buffer being assembled
    clock,                      \* time.time(), in seconds
    discarded_experience_over_time,  \* self.discarded_experience_over_time
    discarded_experience_timer, \* self.discarded_experience_timer
    discarding_rate             \* what the last call of _discarding_rate returned

vars == <<train_step, env_steps, kl_coeff, cfg, model, optimizer_lr,
          should_save_model, load_policy_id, new_cfg, terminate, last_saved,
          model_saved_event, num_discarded_rollouts, rollout_tensors,
          traj_buffer_ready, experience_buffer_queue,
          train_thread_initialized, processing_experience_batch, task_queue,
          policy_worker_queue, report_queue, cpc, rollouts, tpc, data,
          stats, sgd_steps, kl_old_mean, checkpoints, other_checkpoints, tmp_checkpoint,
          slot_version, filling, num_rollouts, num_pbt_tasks, num_batches,
          trained, saved, initial_checkpoints, terminate_sent,
          save_requested, minibatch_args, minibatches, gae_args, gae_buffer,
          batch_rollouts, buffer, clock, discarded_experience_over_time,
          discarded_experience_timer, discarding_rate>>

learnerVars == <<train_step, env_steps, kl_coeff, cfg, model, optimizer_lr,
                 last_saved, model_saved_event, checkpoints, saved>>
latchVars == <<should_save_model, load_policy_id, new_cfg>>
slotVars == <<rollout_tensors, traj_buffer_ready, slot_version, filling>>
coordVars == <<cpc, rollouts, num_discarded_rollouts, num_batches>>
trainVars == <<tpc, data, stats, sgd_steps, kl_old_mean, trained>>
outVars == <<policy_worker_queue, report_queue>>
gaeVars == <<gae_args, gae_buffer>>
assembleVars == <<batch_rollouts, buffer>>
callVars == <<minibatch_args, minibatches, gaeVars, assembleVars>>
windowVars == <<discarded_experience_over_time, discarded_experience_timer>>
rateVars == <<clock, windowVars, discarding_rate>>
envRest == <<num_rollouts, num_pbt_tasks, terminate_sent, other_checkpoints, tmp_checkpoint,
             initial_checkpoints, callVars, rateVars>>
envQuiet == <<num_rollouts, num_pbt_tasks, terminate_sent, other_checkpoints,
              tmp_checkpoint, initial_checkpoints, callVars, save_requested>>
envVars == <<envRest, save_requested>>

\* no file checkpoint_tmp in a directory
NoFile == [kind |-> "no file"]
\* None, as put on the experience queue at shutdown (line 879)
NoData == [kind |-> "none"]
\* the local stats before line 682 has run
NoStats == [kind |-> "unset"]
\* None, for load_policy_id and new_cfg
NoPolicy == -1
NoCfg == [none |-> TRUE]

(***************************************************************************)
(* Checkpoint files.  A file is its content; its name is derived from the  *)
(* content as line 329 formats it, and the directory listing is sorted by  *)
(* name as strings (line 311).  Characters are their ASCII codes.          *)
(***************************************************************************)
RECURSIVE Digits(_)
Digits(n) == IF n < 10 THEN <<48 + n>> ELSE Digits(n \div 10) \o <<48 + (n % 10)>>

RECURSIVE ZeroPad(_, _)
ZeroPad(ds, w) == IF Len(ds) >= w THEN ds ELSE ZeroPad(<<48>> \o ds, w)

\* f'checkpoint_{train_step:09d}_{env_steps}.pth' without the common prefix
\* 'checkpoint_' and the common suffix 'pth'
CheckpointName(c) ==
    ZeroPad(Digits(c.train_step), 9) \o <<95>> \o Digits(c.env_steps) \o <<46>>

RECURSIVE StrLt(_, _)
StrLt(a, b) ==
    IF b = <<>> THEN FALSE
    ELSE IF a = <<>> THEN TRUE
    ELSE IF Head(a) # Head(b) THEN Head(a) < Head(b)
    ELSE StrLt(Tail(a), Tail(b))

\* get_checkpoints(dir)[0] of a listing sorted in descending order
NewestFirst(dir) ==
    CHOOSE f \in dir : \A g \in dir : g = f \/ StrLt(CheckpointName(g), CheckpointName(f))

\* get_checkpoints(dir)[-1] of a listing sorted in descending order
OldestLast(dir) ==
    CHOOSE f \in dir : \A g \in dir : g = f \/ StrLt(CheckpointName(f), CheckpointName(g))

\* get_checkpoints(dir)[0] and get_checkpoints(dir)[-1]
OldestCheckpoint(dir) ==
    CHOOSE f \in dir : \A g \in dir : g = f \/ StrLt(CheckpointName(f), CheckpointName(g))
LatestCheckpoint(dir) ==
    CHOOSE f \in dir : \A g \in dir : g = f \/ StrLt(CheckpointName(g), CheckpointName(f))

\* lines 335-339 with 'if' in place of 'while'
RemoveOldestOnce(dir) ==
    IF Cardinality(dir) > cfg_keep_checkpoints
    THEN dir \ {OldestCheckpoint(dir)}
    ELSE dir

\* the loop of lines 335-339
RECURSIVE RemoveOldest(_)
RemoveOldest(dir) ==
    IF Cardinality(dir) > cfg_keep_checkpoints
    THEN RemoveOldest(dir \ {OldestCheckpoint(dir)})
    ELSE dir

\* os.rename(tmp, filepath): a file of the same name is replaced
Renamed(dir, c) ==
    {f \in dir : CheckpointName(f) # CheckpointName(c)} \cup {c}

\* _save: the directory after saving checkpoint c
SaveInto(dir, c) == RemoveOldest(Renamed(dir, c))

\* _get_checkpoint_dict
CheckpointDict(ts, es, kl, m) ==
    [train_step |-> ts, env_steps |-> es, kl_coeff |-> kl, model |-> m]

\* LinearDecay([(0, initial_save_rate), (1000000, 5000)], staircase=100).at(x)
SaveRateAt(x) ==
    IF x >= 1000000 THEN 5000
    ELSE LET isr == cfg.initial_save_rate
             value == (isr * 1000000 + (5000 - isr) * x) \div 1000000
         IN  (value \div 100) * 100

(***************************************************************************)
(* Values the environment may supply.                                      *)
(***************************************************************************)
\* initial_kl_coeff: 0 (penalty off), 1e-6, 0.2
InitialKlCoeffs == {<<0, 1>>, <<1, 1>>, <<200000, 1>>}
\* initial_save_rate: below and above the staircase of 100
InitialSaveRates == {50, 1000}
\* kl_old_mean of a minibatch, in units of 1e-3: 0.002, 0.007, 0.03
KlMeasurements == {2, 7, 30}
\* env_steps of one rollout
EnvStepsChoices == {2}
\* the latest checkpoint another policy may have written
OtherCheckpointChoices ==
    [train_step : {1}, env_steps : {8}, kl_coeff : {<<0, 1>>, <<300000, 1>>},
     model : {<<1, 1>>}]
\* macro_batch: one or two rollouts, one or two minibatches
MacroBatches == {cfg_rollout, 2 * cfg_rollout}
\* the directory of this policy at start-up: empty, or left by an earlier run
\* that kept three checkpoints, its kl_coeff below or above 1e-6
UsedDir(kl) ==
    {[train_step |-> n, env_steps |-> 2 * n, kl_coeff |-> kl,
      model |-> <<policy_id, n>>] : n \in 1..3}
\* the PBT requests of population_based_training
SaveModelTasks == {[task_type |-> "SAVE_MODEL", policy_id |-> policy_id]}
LoadModelTasks ==
    {[task_type |-> "LOAD_MODEL", policy_id |-> policy_id, new_policy_id |-> p] :
       p \in {policy_id} \cup OtherPolicies}
UpdateCfgTasks ==
    {[task_type |-> "UPDATE_CFG", policy_id |-> policy_id,
      new_cfg |-> [learning_rate |-> lr]] : lr \in {2, 3}}
PbtTasks == SaveModelTasks \cup LoadModelTasks \cup UpdateCfgTasks

(***************************************************************************)
(* The state after LearnerWorker.__init__ (lines 28-85), start_process,    *)
(* init() (lines 882-884) and the rollout worker's announcement of its     *)
(* slots.                                                                  *)
(***************************************************************************)
\* the empty dict of line 61
NoTensors == [k \in {} |-> 0]

InitLearner(kl, isr, mb, dir) ==
    /\ train_step = 0
    /\ env_steps = 0
    /\ kl_coeff = kl
    /\ cfg = [initial_kl_coeff |-> kl, initial_save_rate |-> isr,
              macro_batch |-> mb, learning_rate |-> 1]
    /\ model = <<policy_id, 0>>
    /\ optimizer_lr = 1
    /\ should_save_model = TRUE
    /\ load_policy_id = NoPolicy
    /\ new_cfg = NoCfg
    /\ terminate = FALSE
    /\ last_saved = 0
    /\ model_saved_event = FALSE
    /\ num_discarded_rollouts = 0
    /\ rollout_tensors = NoTensors
    /\ experience_buffer_queue = <<>>
    /\ train_thread_initialized = FALSE
    /\ processing_experience_batch = FALSE
    /\ policy_worker_queue = <<>>
    /\ report_queue = <<>>
    /\ cpc = "loop"
    /\ rollouts = <<>>
    /\ tpc = "init"
    /\ data = NoData
    /\ stats = NoStats
    /\ sgd_steps = 0
    /\ kl_old_mean = 0
    /\ checkpoints = dir
    /\ initial_checkpoints = dir
    /\ saved = <<>>

NoArgs == [experience_size |-> 0]
NoBuffer == [read_train_step |-> 0, copied |-> <<>>]
NotCalled == [kind |-> "not called"]

\* __init__ (lines 79-81) at time 0: an empty window, the timer started
FreshWindow ==
    /\ clock = 0
    /\ discarded_experience_over_time = <<>>
    /\ discarded_experience_timer = 0
    /\ discarding_rate = NotCalled

\* the queues, slots and counters before the first task is taken
InitQueues ==
    /\ task_queue = <<[type |-> "INIT"], [type |-> "EMPTY"],
                      [type |-> "INIT_TENSORS",
                       tensors |-> [s \in 1..NumSlots |-> <<s, s>>]]>>
    /\ traj_buffer_ready = [s \in Slots |-> 1]
    /\ slot_version = [s \in Slots |-> 0]
    /\ filling = {}
    /\ tmp_checkpoint = [p \in OtherPolicies |-> NoFile]
    /\ num_rollouts = 0
    /\ num_pbt_tasks = 0
    /\ num_batches = 0
    /\ trained = <<>>
    /\ terminate_sent = FALSE
    /\ save_requested = FALSE

InitWorkers == InitQueues /\ FreshWindow

\* the window after a minute without discards, a sample every 2 seconds:
\* the deque is full
FullWindow ==
    /\ clock = 0
    /\ discarded_experience_over_time =
         [i \in 1..WindowMaxLen |-> <<2 * (i - WindowMaxLen), 0>>]
    /\ discarded_experience_timer = 0
    /\ discarding_rate = NotCalled

InitEnv ==
    /\ InitWorkers
    /\ minibatch_args = NoArgs
    /\ minibatches = NotCalled
    /\ gae_args = NoArgs
    /\ gae_buffer = NotCalled
    /\ batch_rollouts = <<>>
    /\ buffer = NoBuffer

\* one configuration of the optimizer, an empty directory, no other policy
InitRollouts ==
    /\ \E mb \in MacroBatches : InitLearner(<<200000, 1>>, 1000, mb, {})
    /\ InitEnv
    /\ other_checkpoints = [p \in OtherPolicies |-> {}]

\* macro_batch == batch_size; both save rates, an empty or a used directory
InitSave ==
    /\ \E isr \in InitialSaveRates, dir \in {{}, UsedDir(<<200000, 1>>)} :
          InitLearner(<<200000, 1>>, isr, cfg_batch_size, dir)
    /\ InitEnv
    /\ other_checkpoints = [p \in OtherPolicies |-> {}]

\* macro_batch == batch_size; rare saves, an empty or a used directory,
\* another policy with a checkpoint
InitPbt ==
    /\ \E dir \in {{}, UsedDir(<<200000, 1>>)} :
          InitLearner(<<200000, 1>>, 1000, cfg_batch_size, dir)
    /\ InitEnv
    /\ other_checkpoints =
         [p \in OtherPolicies |->
            {CheckpointDict(1, 8, <<300000, 1>>, <<p, 1>>)}]

\* macro_batch == batch_size; every initial_kl_coeff and every stored kl_coeff
InitKl ==
    /\ \E kl \in InitialKlCoeffs, dir \in {{}, UsedDir(<<1, 2>>)} :
          InitLearner(kl, 1000, cfg_batch_size, dir)
    /\ InitEnv
    /\ other_checkpoints \in
         [OtherPolicies -> {{c} : c \in OtherCheckpointChoices}]

(***************************************************************************)
(* Coordinator thread: _run (lines 822-880).                               *)
(***************************************************************************)
\* while not self.terminate (line 838) and the exit of the loop
CoordLoop ==
    /\ cpc = "loop"
    /\ cpc' = IF terminate THEN "shutdown" ELSE "drain"
    /\ UNCHANGED <<learnerVars, latchVars, slotVars, trainVars, outVars, envVars,
                   terminate, rollouts, num_discarded_rollouts, num_batches,
                   experience_buffer_queue, train_thread_initialized,
                   processing_experience_batch, task_queue>>

\* get_nowait raises Empty (lines 857-858)
TaskQueueEmpty ==
    /\ cpc = "drain"
    /\ task_queue = <<>>
    /\ cpc' = "gate"
    /\ UNCHANGED <<learnerVars, latchVars, slotVars, trainVars, outVars, envVars,
                   terminate, rollouts, num_discarded_rollouts, num_batches,
                   experience_buffer_queue, train_thread_initialized,
                   processing_experience_batch, task_queue>>

NextTask(type) ==
    /\ cpc = "drain"
    /\ task_queue # <<>>
    /\ Head(task_queue).type = type
    /\ task_queue' = Tail(task_queue)

\* TaskType.INIT: _init waits for the training thread (lines 90-93)
TaskInit ==
    /\ NextTask("INIT")
    /\ train_thread_initialized
    /\ UNCHANGED <<learnerVars, latchVars, slotVars, trainVars, outVars, envVars,
                   coordVars, terminate, experience_buffer_queue,
                   train_thread_initialized, processing_experience_batch>>

\* TaskType.EMPTY: no branch of lines 843-856 matches
TaskEmpty ==
    /\ NextTask("EMPTY")
    /\ UNCHANGED <<learnerVars, latchVars, slotVars, trainVars, outVars, envVars,
                   coordVars, terminate, experience_buffer_queue,
                   train_thread_initialized, processing_experience_batch>>

\* TaskType.TERMINATE: _terminate, then break out of the drain loop
TaskTerminate ==
    /\ NextTask("TERMINATE")
    /\ terminate' = TRUE
    /\ cpc' = "gate"
    /\ UNCHANGED <<learnerVars, latchVars, slotVars, trainVars, outVars, envVars,
                   rollouts, num_discarded_rollouts, num_batches,
                   experience_buffer_queue, train_thread_initialized,
                   processing_experience_batch>>

\* the assignment of line 780 made for every item, the key replaced or added
RegisterOver(dict, items, i) ==
    [rollout_tensors |->
        [k \in DOMAIN dict \cup {items[j][1] : j \in 1..Len(items)} |->
            IF \E j \in 1..Len(items) : items[j][1] = k
            THEN items[CHOOSE j \in 1..Len(items) : items[j][1] = k][2]
            ELSE dict[k]],
     raised |-> FALSE]

\* the loop of _init_rollout_tensors (lines 774-780) from item i on: the
\* items (key, handle) are taken in the order of data.tensors; the assertion
\* of line 778 ends the loop at the first key already present
RECURSIVE RegisterFrom(_, _, _)
RegisterFrom(dict, items, i) ==
    IF i > Len(items) THEN [rollout_tensors |-> dict, raised |-> FALSE]
    ELSE IF items[i][1] \in DOMAIN dict
    THEN [rollout_tensors |-> dict, raised |-> TRUE]
    ELSE RegisterFrom([k \in DOMAIN dict \cup {items[i][1]} |->
                          IF k = items[i][1] THEN items[i][2] ELSE dict[k]],
                      items, i + 1)

\* TaskType.INIT_TENSORS: _init_rollout_tensors (lines 770-782); the assertion
\* of line 778 ends the coordinator
TaskInitTensors ==
    /\ NextTask("INIT_TENSORS")
    /\ LET registered == RegisterFrom(rollout_tensors, Head(task_queue).tensors, 1)
       IN  /\ rollout_tensors' = registered.rollout_tensors
           /\ cpc' = IF registered.raised THEN "failed" ELSE cpc
    /\ UNCHANGED <<learnerVars, latchVars, trainVars, outVars, envVars,
                   traj_buffer_ready, slot_version, filling,
                   rollouts, num_discarded_rollouts, num_batches, terminate,
                   experience_buffer_queue, train_thread_initialized,
                   processing_experience_batch>>

\* _extract_rollouts (lines 784-803): the descriptors of one TRAIN message; 't'
\* is the reference to the shared slot env_idx
ExtractRollouts(msg) == msg.rollouts

\* TaskType.TRAIN (lines 851-853)
TaskTrain ==
    /\ NextTask("TRAIN")
    /\ rollouts' = rollouts \o ExtractRollouts(Head(task_queue))
    /\ UNCHANGED <<learnerVars, latchVars, slotVars, trainVars, outVars, envVars,
                   cpc, num_discarded_rollouts, num_batches, terminate,
                   experience_buffer_queue, train_thread_initialized,
                   processing_experience_batch>>

\* _process_pbt_task that applies UPDATE_CFG to the optimizer itself
TaskPbtApplying ==
    /\ NextTask("PBT")
    /\ LET t == Head(task_queue).task
       IN  /\ should_save_model' =
                IF t.task_type = "SAVE_MODEL" THEN TRUE ELSE should_save_model
           /\ load_policy_id' =
                IF t.task_type = "LOAD_MODEL" THEN t.new_policy_id ELSE load_policy_id
           /\ new_cfg' = new_cfg
           /\ optimizer_lr' =
                IF t.task_type = "UPDATE_CFG" THEN t.new_cfg.learning_rate
                ELSE optimizer_lr
           /\ save_requested' = (t.task_type = "SAVE_MODEL" \/ save_requested)
    /\ UNCHANGED <<train_step, env_steps, kl_coeff, cfg, model, last_saved,
                   model_saved_event, checkpoints, saved,
                   slotVars, trainVars, outVars, envRest,
                   coordVars, terminate, experience_buffer_queue,
                   train_thread_initialized, processing_experience_batch>>

\* TaskType.PBT: _process_pbt_task (lines 805-820)
TaskPbt ==
    /\ NextTask("PBT")
    /\ LET t == Head(task_queue).task
       IN  /\ should_save_model' =
                IF t.task_type = "SAVE_MODEL" THEN TRUE ELSE should_save_model
           /\ load_policy_id' =
                IF t.task_type = "LOAD_MODEL" THEN t.new_policy_id ELSE load_policy_id
           /\ new_cfg' =
                IF t.task_type = "UPDATE_CFG" THEN t.new_cfg ELSE new_cfg
           /\ save_requested' = (t.task_type = "SAVE_MODEL" \/ save_requested)
    /\ UNCHANGED <<learnerVars, slotVars, trainVars, outVars, envRest,
                   coordVars, terminate, experience_buffer_queue,
                   train_thread_initialized, processing_experience_batch>>

(***************************************************************************)
(* Back-pressure (lines 860-862).                                          *)
(***************************************************************************)
\* the gate with the threshold one higher: qsize() > 2
CoordGateLate ==
    /\ cpc = "gate"
    /\ cpc' = IF Len(experience_buffer_queue) > 2 THEN "clear" ELSE "process"
    /\ UNCHANGED <<learnerVars, latchVars, slotVars, trainVars, outVars, envVars,
                   terminate, rollouts, num_discarded_rollouts, num_batches,
                   experience_buffer_queue, train_thread_initialized,
                   processing_experience_batch, task_queue>>

\* while self.experience_buffer_queue.qsize() > 1
CoordGate ==
    /\ cpc = "gate"
    /\ cpc' = IF Len(experience_buffer_queue) > 1 THEN "clear" ELSE "process"
    /\ UNCHANGED <<learnerVars, latchVars, slotVars, trainVars, outVars, envVars,
                   terminate, rollouts, num_discarded_rollouts, num_batches,
                   experience_buffer_queue, train_thread_initialized,
                   processing_experience_batch, task_queue>>

\* self.processing_experience_batch.clear()
CoordClear ==
    /\ cpc = "clear"
    /\ processing_experience_batch' = FALSE
    /\ cpc' = "wait"
    /\ UNCHANGED <<learnerVars, latchVars, slotVars, trainVars, outVars, envVars,
                   terminate, rollouts, num_discarded_rollouts, num_batches,
                   experience_buffer_queue, train_thread_initialized, task_queue>>

\* self.processing_experience_batch.wait()
CoordWait ==
    /\ cpc = "wait"
    /\ processing_experience_batch
    /\ cpc' = "gate"
    /\ UNCHANGED <<learnerVars, latchVars, slotVars, trainVars, outVars, envVars,
                   terminate, rollouts, num_discarded_rollouts, num_batches,
                   experience_buffer_queue, train_thread_initialized,
                   processing_experience_batch, task_queue>>

(***************************************************************************)
(* _process_rollouts (lines 201-237) with _process_macro_batch (187-199)   *)
(* and _prepare_train_buffer (138-185).                                    *)
(***************************************************************************)
rollouts_in_macro_batch == cfg.macro_batch \div cfg_rollout

\* r['t']['policy_version'].min().item(): read from the shared slot
RolloutMinVersion(r) == slot_version[r.env_idx]

\* the test of line 213 with > in place of >=
IsStaleStrict(r, policy_version) ==
    policy_version - RolloutMinVersion(r) > cfg_max_policy_lag

\* the test of line 213
IsStale(r, policy_version) ==
    policy_version - RolloutMinVersion(r) >= cfg_max_policy_lag

\* the loop of lines 211-217 without the break: every stale rollout counts
RECURSIVE DiscardAllStale(_, _)
DiscardAllStale(rs, policy_version) ==
    IF rs = <<>> THEN 0
    ELSE (IF policy_version - RolloutMinVersion(Head(rs)) >= cfg_max_policy_lag
          THEN 1 ELSE 0) + DiscardAllStale(Tail(rs), policy_version)

\* discard_rollouts after the loop of lines 211-217
RECURSIVE DiscardRollouts(_, _)
DiscardRollouts(rs, policy_version) ==
    IF rs = <<>> THEN 0
    ELSE IF IsStale(Head(rs), policy_version)
         THEN 1 + DiscardRollouts(Tail(rs), policy_version)
         ELSE 0

\* the slots of a list of rollouts
SlotsOf(rs) == {rs[i].env_idx : i \in 1..Len(rs)}

\* _mark_rollout_buffer_free that leaves the bits as they are
MarkNothingFree(ready, rs) == ready

\* _mark_rollout_buffer_free called for the first rollout of rs only
MarkFirstFree(ready, rs) ==
    [s \in Slots |-> IF rs # <<>> /\ s = rs[1].env_idx THEN 1 ELSE ready[s]]

\* _mark_rollout_buffer_free for every rollout of rs (lines 133-136)
MarkRolloutBuffersFree(ready, rs) ==
    [s \in Slots |-> IF s \in SlotsOf(rs) THEN 1 ELSE ready[s]]

RECURSIVE SumField(_, _)
SumField(rs, f) == IF rs = <<>> THEN 0 ELSE Head(rs)[f] + SumField(Tail(rs), f)

\* the tuple (buffer, samples, env_steps) of line 199; policy_version is the
\* per-rollout minimum of the copied policy_version tensor, id and
\* read_train_step (the train_step read at line 210) are history
ExperienceTuple(rs, policy_version, id) ==
    [kind |-> "batch", id |-> id,
     policy_version |-> [i \in 1..Len(rs) |-> RolloutMinVersion(rs[i])],
     read_train_step |-> policy_version,
     samples |-> SumField(rs, "length"),
     env_steps |-> SumField(rs, "env_steps")]

\* deque.append with maxlen: the oldest sample leaves a full window
AppendMaxLen(q, x) ==
    IF Len(q) >= WindowMaxLen THEN Append(Tail(q), x) ELSE Append(q, x)

\* _experience_collection_rate_stats (lines 754-758), called at line 872
\* with num_discarded_rollouts at count
ExperienceCollectionRateStats(count) ==
    LET now == clock
    IN  IF now - discarded_experience_timer > 1
        THEN /\ discarded_experience_timer' = now
             /\ discarded_experience_over_time' =
                  AppendMaxLen(discarded_experience_over_time, <<now, count>>)
        ELSE UNCHANGED windowVars

\* _discarding_rate (lines 760-768): the quotient as the pair
\* <<delta_rollouts, delta_time>>, or the exception of line 767
DiscardingRate ==
    IF Len(discarded_experience_over_time) <= 0
    THEN [kind |-> "rate", value |-> <<0, 1>>]
    ELSE LET first == discarded_experience_over_time[1]
             last == discarded_experience_over_time[Len(discarded_experience_over_time)]
             delta_rollouts == last[2] - first[2]
             delta_time == last[1] - first[1]
         IN  IF delta_time = 0
             THEN [kind |-> "ZeroDivisionError"]
             ELSE [kind |-> "rate", value |-> <<delta_rollouts, delta_time>>]

\* the newest rollouts_in_macro_batch rollouts of the list
NewestRollouts(rs) == SubSeq(rs, Len(rs) - rollouts_in_macro_batch + 1, Len(rs))

\* rollouts[:rollouts_in_macro_batch] (line 229)
RolloutsToProcess(rs) == SubSeq(rs, 1, rollouts_in_macro_batch)

\* _process_rollouts without the early return of lines 206-207
NeverTooFew(rs) == FALSE

\* the early return of _process_rollouts (lines 206-207)
TooFewRollouts(rs) == Len(rs) < rollouts_in_macro_batch

\* _process_rollouts (lines 201-237) with _process_macro_batch and
\* _prepare_train_buffer; without work_done the coordinator sleeps
\* (lines 874-876)
ProcessRollouts ==
    /\ cpc = "process"
    /\ IF TooFewRollouts(rollouts)
       THEN /\ cpc' = "sleep"
            /\ UNCHANGED <<rollouts, traj_buffer_ready, num_discarded_rollouts,
                           experience_buffer_queue, num_batches>>
       ELSE LET policy_version == train_step
                discard_rollouts == DiscardRollouts(rollouts, policy_version)
                discarded == SubSeq(rollouts, 1, discard_rollouts)
                kept == SubSeq(rollouts, discard_rollouts + 1, Len(rollouts))
                ready1 == MarkRolloutBuffersFree(traj_buffer_ready, discarded)
            IN  /\ num_discarded_rollouts' = num_discarded_rollouts + discard_rollouts
                /\ IF Len(kept) >= rollouts_in_macro_batch
                   THEN LET rollouts_to_process == RolloutsToProcess(kept)
                        IN  /\ rollouts' = SubSeq(kept, rollouts_in_macro_batch + 1, Len(kept))
                            /\ traj_buffer_ready' =
                                 MarkRolloutBuffersFree(ready1, rollouts_to_process)
                            /\ experience_buffer_queue' =
                                 Append(experience_buffer_queue,
                                        ExperienceTuple(rollouts_to_process, policy_version,
                                                        num_batches + 1))
                            /\ num_batches' = num_batches + 1
                            /\ cpc' = "loop"
                   ELSE /\ rollouts' = kept
                        /\ traj_buffer_ready' = ready1
                        /\ cpc' = "sleep"
                        /\ UNCHANGED <<experience_buffer_queue, num_batches>>
    /\ ExperienceCollectionRateStats(num_discarded_rollouts')
    /\ UNCHANGED <<learnerVars, latchVars, trainVars, outVars, envQuiet,
                   clock, discarding_rate,
                   rollout_tensors, slot_version, filling, terminate,
                   train_thread_initialized, processing_experience_batch, task_queue>>

(***************************************************************************)
(* _process_rollouts step by step: the slice (lines 201-230), the copies   *)
(* of _prepare_train_buffer (lines 172-174), the release (lines 181-183),  *)
(* the put (line 199).                                                     *)
(***************************************************************************)
\* the fields of a trajectory, in the order iterate_recursively yields them
BufferFields == <<"obs", "policy_version">>

\* the rollouts released before the copies, with those of the batch
ReleasedWithBatch(discarded, to_process) == discarded \o to_process

\* the rollouts released before the copies: the discarded ones (line 215)
ReleasedBeforeCopy(discarded, to_process) == discarded

\* lines 201-230: early return, discards, slice
AssembleSlice ==
    /\ cpc = "process"
    /\ IF TooFewRollouts(rollouts)
       THEN /\ cpc' = "sleep"
            /\ ExperienceCollectionRateStats(num_discarded_rollouts)
            /\ UNCHANGED <<rollouts, traj_buffer_ready, num_discarded_rollouts,
                           batch_rollouts, buffer>>
       ELSE LET policy_version == train_step
                discard_rollouts == DiscardRollouts(rollouts, policy_version)
                discarded == SubSeq(rollouts, 1, discard_rollouts)
                kept == SubSeq(rollouts, discard_rollouts + 1, Len(rollouts))
            IN  /\ num_discarded_rollouts' = num_discarded_rollouts + discard_rollouts
                /\ IF Len(kept) >= rollouts_in_macro_batch
                   THEN /\ rollouts' = SubSeq(kept, rollouts_in_macro_batch + 1, Len(kept))
                        /\ batch_rollouts' = RolloutsToProcess(kept)
                        /\ traj_buffer_ready' =
                             MarkRolloutBuffersFree(traj_buffer_ready,
                                ReleasedBeforeCopy(discarded, RolloutsToProcess(kept)))
                        /\ buffer' = [read_train_step |-> policy_version, copied |-> <<>>]
                        /\ cpc' = "copy"
                        /\ UNCHANGED windowVars
                   ELSE /\ rollouts' = kept
                        /\ traj_buffer_ready' =
                             MarkRolloutBuffersFree(traj_buffer_ready, discarded)
                        /\ cpc' = "sleep"
                        /\ ExperienceCollectionRateStats(num_discarded_rollouts')
                        /\ UNCHANGED <<batch_rollouts, buffer>>
    /\ UNCHANGED <<learnerVars, latchVars, trainVars, outVars,
                   num_rollouts, num_pbt_tasks, terminate_sent, other_checkpoints, tmp_checkpoint,
                   clock, discarding_rate,
                   initial_checkpoints, save_requested, minibatch_args, minibatches,
                   gaeVars, num_batches, experience_buffer_queue,
                   rollout_tensors, slot_version, filling, terminate,
                   train_thread_initialized, processing_experience_batch, task_queue>>

\* torch.cat of one field of all the rollouts of the batch (lines 173-174):
\* what the slots hold at that time
PrepareCopy ==
    /\ cpc = "copy"
    /\ buffer' = [buffer EXCEPT !.copied =
                    Append(@, [i \in 1..Len(batch_rollouts) |->
                                 RolloutMinVersion(batch_rollouts[i])])]
    /\ cpc' = IF Len(buffer.copied) + 1 = Len(BufferFields) THEN "free" ELSE "copy"
    /\ UNCHANGED <<learnerVars, latchVars, slotVars, trainVars, outVars,
                   num_rollouts, num_pbt_tasks, terminate_sent, other_checkpoints, tmp_checkpoint,
                   rateVars,
                   initial_checkpoints, save_requested, minibatch_args, minibatches,
                   gaeVars, batch_rollouts,
                   rollouts, num_discarded_rollouts, num_batches, terminate,
                   experience_buffer_queue, train_thread_initialized,
                   processing_experience_batch, task_queue>>

\* _mark_rollout_buffer_free for the rollouts of the batch (lines 181-183)
PrepareFree ==
    /\ cpc = "free"
    /\ traj_buffer_ready' = MarkRolloutBuffersFree(traj_buffer_ready, batch_rollouts)
    /\ cpc' = "put"
    /\ UNCHANGED <<learnerVars, latchVars, trainVars, outVars,
                   num_rollouts, num_pbt_tasks, terminate_sent, other_checkpoints, tmp_checkpoint,
                   rateVars,
                   initial_checkpoints, save_requested, minibatch_args, minibatches,
                   gaeVars, assembleVars, rollout_tensors, slot_version, filling,
                   rollouts, num_discarded_rollouts, num_batches, terminate,
                   experience_buffer_queue, train_thread_initialized,
                   processing_experience_batch, task_queue>>

\* experience_buffer_queue.put((buffer, samples, env_steps)) (line 199)
MacroBatchPut ==
    /\ cpc = "put"
    /\ experience_buffer_queue' =
         Append(experience_buffer_queue,
                [kind |-> "batch", id |-> num_batches + 1,
                 policy_version |-> buffer.copied[Len(BufferFields)],
                 read_train_step |-> buffer.read_train_step,
                 samples |-> SumField(batch_rollouts, "length"),
                 env_steps |-> SumField(batch_rollouts, "env_steps")])
    /\ num_batches' = num_batches + 1
    /\ batch_rollouts' = <<>>
    /\ buffer' = NoBuffer
    /\ cpc' = "loop"
    /\ ExperienceCollectionRateStats(num_discarded_rollouts)
    /\ UNCHANGED <<learnerVars, latchVars, slotVars, trainVars, outVars,
                   num_rollouts, num_pbt_tasks, terminate_sent, other_checkpoints, tmp_checkpoint,
                   clock, discarding_rate,
                   initial_checkpoints, save_requested, minibatch_args, minibatches,
                   gaeVars, rollouts, num_discarded_rollouts, terminate,
                   train_thread_initialized, processing_experience_batch, task_queue>>

\* time.sleep(0.005) when no work was done (lines 874-876), then the test
\* of the loop (line 838)
CoordSleep ==
    /\ cpc = "sleep"
    /\ cpc' = IF terminate THEN "shutdown" ELSE "drain"
    /\ UNCHANGED <<learnerVars, latchVars, slotVars, trainVars, outVars, envVars,
                   terminate, rollouts, num_discarded_rollouts, num_batches,
                   experience_buffer_queue, train_thread_initialized,
                   processing_experience_batch, task_queue>>

\* after the loop: put the sentinel (line 879)
CoordShutdown ==
    /\ cpc = "shutdown"
    /\ experience_buffer_queue' = Append(experience_buffer_queue, NoData)
    /\ cpc' = "join"
    /\ UNCHANGED <<learnerVars, latchVars, slotVars, trainVars, outVars, envVars,
                   terminate, rollouts, num_discarded_rollouts, num_batches,
                   train_thread_initialized, processing_experience_batch, task_queue>>

\* self.training_thread.join() (line 880)
CoordJoin ==
    /\ cpc = "join"
    /\ tpc = "exited"
    /\ cpc' = "done"
    /\ UNCHANGED <<learnerVars, latchVars, slotVars, trainVars, outVars, envVars,
                   terminate, rollouts, num_discarded_rollouts, num_batches,
                   experience_buffer_queue, train_thread_initialized,
                   processing_experience_batch, task_queue>>

(***************************************************************************)
(* Training thread: _train_loop (lines 712-752).                           *)
(***************************************************************************)
\* checkpoint_dir(cfg, p) as listed by get_checkpoints
CheckpointDir(p) == IF p = policy_id THEN checkpoints ELSE other_checkpoints[p]

\* 'checkpoint_tmp' without the common prefix 'checkpoint_'
TmpName == <<116, 109, 112>>

\* checkpoint_tmp of directory p, if it exists: the learner's own _save and
\* its loads run on one thread, so its own directory holds none at a load
TmpFiles(p) ==
    IF p \in OtherPolicies /\ tmp_checkpoint[p] # NoFile
    THEN {[name |-> TmpName, content |-> tmp_checkpoint[p].content,
           complete |-> tmp_checkpoint[p].complete]}
    ELSE {}

\* glob(checkpoint_dir/checkpoint_*) (lines 308-311): the renamed
\* checkpoints and checkpoint_tmp
GetCheckpoints(p) ==
    {[name |-> CheckpointName(f), content |-> f, complete |-> TRUE] :
        f \in CheckpointDir(p)} \cup TmpFiles(p)

\* checkpoints[-1] of the sorted listing (line 619): the last of the
\* renamed checkpoints, or checkpoint_tmp when its name sorts after it
LastListed(p) ==
    LET renamed == IF CheckpointDir(p) = {} THEN {}
                   ELSE {e \in GetCheckpoints(p) :
                           e.complete /\ e.content = LatestCheckpoint(CheckpointDir(p))}
        last == renamed \cup TmpFiles(p)
    IN  CHOOSE e \in last : \A g \in last : g = e \/ StrLt(g.name, e.name)

\* torch.load (line 621) of a file that is still being written raises
LoadRaises(p) == GetCheckpoints(p) # {} /\ ~LastListed(p).complete

\* load_from_checkpoint with load_progress always True
LoadWithProgress(p, cur) ==
    IF CheckpointDir(p) = {}
    THEN cur
    ELSE LET checkpoint_dict == LatestCheckpoint(CheckpointDir(p))
         IN  [train_step |-> checkpoint_dict.train_step,
              env_steps |-> checkpoint_dict.env_steps,
              kl_coeff |-> checkpoint_dict.kl_coeff,
              model |-> checkpoint_dict.model]

\* load_from_checkpoint with load_progress always False
LoadKeepingProgress(p, cur) ==
    IF CheckpointDir(p) = {}
    THEN cur
    ELSE LET checkpoint_dict == LatestCheckpoint(CheckpointDir(p))
         IN  [train_step |-> cur.train_step,
              env_steps |-> cur.env_steps,
              kl_coeff |-> checkpoint_dict.kl_coeff,
              model |-> checkpoint_dict.model]

\* _load_state without the assignment of kl_coeff (line 628)
LoadKeepingKl(p, cur) ==
    IF CheckpointDir(p) = {}
    THEN cur
    ELSE LET checkpoint_dict == LatestCheckpoint(CheckpointDir(p))
             load_progress == (p = policy_id)
         IN  [train_step |-> IF load_progress THEN checkpoint_dict.train_step
                             ELSE cur.train_step,
              env_steps |-> IF load_progress THEN checkpoint_dict.env_steps
                            ELSE cur.env_steps,
              kl_coeff |-> cur.kl_coeff,
              model |-> checkpoint_dict.model]

\* load_from_checkpoint(p) with load_checkpoint and _load_state (614-648):
\* the learner state after the call, given the state cur before it
LoadFromCheckpoint(p, cur) ==
    IF GetCheckpoints(p) = {} \/ LoadRaises(p)
    THEN cur
    ELSE LET checkpoint_dict == LastListed(p).content
             load_progress == (p = policy_id)
         IN  [train_step |-> IF load_progress THEN checkpoint_dict.train_step
                             ELSE cur.train_step,
              env_steps |-> IF load_progress THEN checkpoint_dict.env_steps
                            ELSE cur.env_steps,
              kl_coeff |-> checkpoint_dict.kl_coeff,
              model |-> checkpoint_dict.model]

\* _broadcast_weights (lines 98-103): the policy_version put on the queue
BroadcastWeights(q, ts) == Append(q, ts)

\* initialize (lines 650-676)
TrainerInitialize ==
    /\ tpc = "init"
    /\ LET st == LoadFromCheckpoint(policy_id,
                    CheckpointDict(train_step, env_steps, kl_coeff, model))
       IN  /\ train_step' = st.train_step
           /\ env_steps' = st.env_steps
           /\ kl_coeff' = st.kl_coeff
           /\ model' = st.model
           /\ policy_worker_queue' =
                IF DiscardingRate.kind = "ZeroDivisionError" THEN policy_worker_queue
                ELSE BroadcastWeights(policy_worker_queue, st.train_step)
    /\ discarding_rate' = DiscardingRate
    /\ train_thread_initialized' =
         (train_thread_initialized \/ DiscardingRate.kind # "ZeroDivisionError")
    /\ tpc' = IF DiscardingRate.kind = "ZeroDivisionError" THEN "failed" ELSE "loop"
    /\ UNCHANGED <<cfg, optimizer_lr, last_saved, model_saved_event, checkpoints, saved,
                   latchVars, slotVars, coordVars, envQuiet, clock, windowVars,
                   report_queue,
                   data, stats, sgd_steps, kl_old_mean, trained, terminate,
                   experience_buffer_queue, processing_experience_batch, task_queue>>

\* while not self.terminate (line 720)
TrainerLoop ==
    /\ tpc = "loop"
    /\ tpc' = IF terminate THEN "exited" ELSE "get"
    /\ UNCHANGED <<learnerVars, latchVars, slotVars, coordVars, outVars, envVars,
                   data, stats, sgd_steps, kl_old_mean, trained, terminate,
                   experience_buffer_queue, train_thread_initialized,
                   processing_experience_batch, task_queue>>

\* a queue that hands out its newest element (LIFO)
QueueGetNewest(q) == <<q[Len(q)], SubSeq(q, 1, Len(q) - 1)>>

\* queue.Queue.get: the element taken and the queue left (FIFO)
QueueGet(q) == <<Head(q), Tail(q)>>

\* data = safe_get(self.experience_buffer_queue) (line 722)
TrainerGet ==
    /\ tpc = "get"
    /\ experience_buffer_queue # <<>>
    /\ data' = QueueGet(experience_buffer_queue)[1]
    /\ experience_buffer_queue' = QueueGet(experience_buffer_queue)[2]
    /\ tpc' = "got"
    /\ UNCHANGED <<learnerVars, latchVars, slotVars, coordVars, outVars, envVars,
                   stats, sgd_steps, kl_old_mean, trained, terminate,
                   train_thread_initialized, processing_experience_batch, task_queue>>

\* the training thread going on to _process_training_data whatever the flag
AfterGetUnchecked(terminated, d) ==
    IF d = NoData THEN "failed" ELSE "train"

\* the test of terminate after the get (lines 726-727), then
\* _process_training_data, where unpacking None (line 679) ends the thread
AfterGet(terminated, d) ==
    IF terminated THEN "exited"
    ELSE IF d = NoData THEN "failed" ELSE "train"

\* processing_experience_batch.set() and the test of terminate (724-727)
TrainerGot ==
    /\ tpc = "got"
    /\ processing_experience_batch' = TRUE
    /\ tpc' = AfterGet(terminate, data)
    /\ UNCHANGED <<learnerVars, latchVars, slotVars, coordVars, outVars, envVars,
                   data, stats, sgd_steps, kl_old_mean, trained, terminate,
                   experience_buffer_queue, train_thread_initialized, task_queue>>

\* the stats dict built from the counter as the batch found it
StatsBeforeBatch(es, d) == [env_steps |-> es]

\* self.env_steps += env_steps; stats = dict(env_steps=self.env_steps, ...)
\* (lines 680-682)
StatsDict(es, d) == [env_steps |-> es + d.env_steps]

\* _process_training_data up to the load of _update_pbt (lines 679-689 and
\* 592-598); the stats of line 682 hold env_steps as it is before the load
TrainerLoadPolicy ==
    /\ tpc = "train"
    /\ stats' = StatsDict(env_steps, data)
    /\ discarding_rate' = DiscardingRate
    /\ trained' = IF DiscardingRate.kind = "ZeroDivisionError" THEN trained
                  ELSE Append(trained, [id |-> data.id, loaded |-> load_policy_id,
                                         env_steps |-> data.env_steps])
    /\ LET cur == CheckpointDict(train_step, env_steps + data.env_steps, kl_coeff, model)
           st == IF load_policy_id # NoPolicy /\ DiscardingRate.kind # "ZeroDivisionError"
                 THEN LoadFromCheckpoint(load_policy_id, cur) ELSE cur
       IN  /\ train_step' = st.train_step
           /\ env_steps' = st.env_steps
           /\ kl_coeff' = st.kl_coeff
           /\ model' = st.model
    /\ tpc' = IF DiscardingRate.kind = "ZeroDivisionError" THEN "failed"
              ELSE IF load_policy_id = NoPolicy THEN "pbt_cfg"
              ELSE IF LoadRaises(load_policy_id) THEN "failed" ELSE "pbt_clear"
    /\ UNCHANGED <<cfg, optimizer_lr, last_saved, model_saved_event, checkpoints, saved,
                   latchVars, slotVars, coordVars, outVars, envQuiet, clock, windowVars,
                   data, sgd_steps, kl_old_mean, terminate,
                   experience_buffer_queue, train_thread_initialized,
                   processing_experience_batch, task_queue>>

\* self.load_policy_id = None (line 599)
TrainerClearLoad ==
    /\ tpc = "pbt_clear"
    /\ load_policy_id' = NoPolicy
    /\ tpc' = "pbt_cfg"
    /\ UNCHANGED <<learnerVars, should_save_model, new_cfg, slotVars, coordVars,
                   outVars, envVars, data, stats, sgd_steps, kl_old_mean, trained, terminate,
                   experience_buffer_queue, train_thread_initialized,
                   processing_experience_batch, task_queue>>

\* the second half of _update_pbt (lines 601-610)
TrainerUpdateCfg ==
    /\ tpc = "pbt_cfg"
    /\ IF new_cfg # NoCfg
       THEN /\ cfg' = [cfg EXCEPT !.learning_rate = new_cfg.learning_rate]
            /\ optimizer_lr' = new_cfg.learning_rate
            /\ tpc' = "pbt_cfg_clear"
            /\ UNCHANGED sgd_steps
       ELSE /\ tpc' = "sgd"
            /\ sgd_steps' = 0
            /\ UNCHANGED <<cfg, optimizer_lr>>
    /\ UNCHANGED <<train_step, env_steps, kl_coeff, model, last_saved,
                   model_saved_event, checkpoints, saved,
                   latchVars, slotVars, coordVars, outVars, envVars,
                   data, stats, kl_old_mean, trained, terminate,
                   experience_buffer_queue, train_thread_initialized,
                   processing_experience_batch, task_queue>>

\* self.new_cfg = None (line 612)
TrainerClearCfg ==
    /\ tpc = "pbt_cfg_clear"
    /\ new_cfg' = NoCfg
    /\ tpc' = "sgd"
    /\ sgd_steps' = 0
    /\ UNCHANGED <<learnerVars, should_save_model, load_policy_id, slotVars, coordVars,
                   outVars, envVars, data, stats, kl_old_mean, trained, terminate,
                   experience_buffer_queue, train_thread_initialized,
                   processing_experience_batch, task_queue>>

\* len(minibatches) of _get_minibatches (lines 239-259)
NumMinibatches(experience_size) ==
    IF cfg.macro_batch = cfg_batch_size THEN 1
    ELSE experience_size \div cfg_batch_size

\* one optimizer step per epoch, whatever the number of minibatches
EpochsOnly == cfg_ppo_epochs

\* optimizer steps of one _train call (lines 391-394)
NumSgdSteps == cfg_ppo_epochs * NumMinibatches(cfg.macro_batch)

\* the condition of _maybe_save without the latched request
SaveOnScheduleOnly(ts) ==
    ts - last_saved >= SaveRateAt(ts)

\* the condition of _maybe_save (line 297)
ShouldSave(ts) ==
    ts - last_saved >= SaveRateAt(ts) \/ should_save_model

\* one minibatch of _train (lines 395-515): the optimizer step, then
\* _after_optimizer_step with _maybe_save up to model_saved_event.set()
TrainerSgdStep(KL) ==
    /\ tpc = "sgd"
    /\ sgd_steps < NumSgdSteps
    /\ \E k \in KL : kl_old_mean' = k
    /\ model' = <<model[1], model[2] + 1>>
    /\ train_step' = train_step + 1
    /\ sgd_steps' = sgd_steps + 1
    /\ IF ShouldSave(train_step + 1)
       THEN /\ checkpoints' =
                 SaveInto(checkpoints,
                          CheckpointDict(train_step + 1, env_steps, kl_coeff,
                                         <<model[1], model[2] + 1>>))
            /\ saved' = Append(saved, CheckpointDict(train_step + 1, env_steps, kl_coeff,
                                                     <<model[1], model[2] + 1>>))
            /\ model_saved_event' = TRUE
            /\ save_requested' = FALSE
            /\ tpc' = "save_clear"
       ELSE /\ UNCHANGED <<checkpoints, saved, model_saved_event, save_requested>>
            /\ tpc' = "sgd"
    /\ UNCHANGED <<env_steps, kl_coeff, cfg, optimizer_lr, last_saved,
                   latchVars, slotVars, coordVars, outVars, envRest,
                   data, stats, trained, terminate,
                   experience_buffer_queue, train_thread_initialized,
                   processing_experience_batch, task_queue>>

\* the end of _maybe_save (lines 300-301)
TrainerSaveClear ==
    /\ tpc = "save_clear"
    /\ should_save_model' = FALSE
    /\ last_saved' = train_step
    /\ tpc' = "sgd"
    /\ UNCHANGED <<train_step, env_steps, kl_coeff, cfg, model, optimizer_lr,
                   model_saved_event, checkpoints, saved, load_policy_id, new_cfg,
                   slotVars, coordVars, outVars, envVars,
                   data, stats, sgd_steps, kl_old_mean, trained, terminate,
                   experience_buffer_queue, train_thread_initialized,
                   processing_experience_batch, task_queue>>

\* lines 583-586 without the max of line 587
AdjustKlCoeffNoFloor(kl, k) ==
    IF k > cfg_target_kl THEN Rat(kl[1] * 3, kl[2] * 2)
    ELSE IF 2 * k < cfg_target_kl THEN Rat(kl[1] * 2, kl[2] * 3)
    ELSE kl

\* lines 583-587 executed after each of two optimizer steps
AdjustKlCoeffPerStep(kl, k) ==
    RatMax(AdjustKlCoeffNoFloor(AdjustKlCoeffNoFloor(kl, k), k), KlFloor)

\* lines 583-587 with the floor 1e-7
AdjustKlCoeffLowFloor(kl, k) == RatMax(AdjustKlCoeffNoFloor(kl, k), <<1, 10>>)

\* the adjustment of kl_coeff at the end of _train (lines 583-587)
AdjustKlCoeff(kl, k) ==
    LET adjusted == IF k > cfg_target_kl THEN Rat(kl[1] * 3, kl[2] * 2)
                    ELSE IF 2 * k < cfg_target_kl THEN Rat(kl[1] * 2, kl[2] * 3)
                    ELSE kl
    IN  RatMax(adjusted, KlFloor)

\* the end of _train (lines 581-590)
TrainerAdjustKl ==
    /\ tpc = "sgd"
    /\ sgd_steps = NumSgdSteps
    /\ kl_coeff' = AdjustKlCoeff(kl_coeff, kl_old_mean)
    /\ tpc' = "trained"
    /\ UNCHANGED <<train_step, env_steps, cfg, model, optimizer_lr, last_saved,
                   model_saved_event, checkpoints, saved,
                   latchVars, slotVars, coordVars, outVars, envVars,
                   data, stats, sgd_steps, kl_old_mean, trained, terminate,
                   experience_buffer_queue, train_thread_initialized,
                   processing_experience_batch, task_queue>>

\* _process_training_data after _train: _broadcast_weights (lines 694-708)
TrainerPublish ==
    /\ tpc = "trained"
    /\ policy_worker_queue' = BroadcastWeights(policy_worker_queue, train_step)
    /\ tpc' = "report"
    /\ UNCHANGED <<learnerVars, latchVars, slotVars, coordVars, envVars,
                   report_queue,
                   data, stats, sgd_steps, kl_old_mean, trained, terminate,
                   experience_buffer_queue, train_thread_initialized,
                   processing_experience_batch, task_queue>>

\* self.report_queue.put(stats) (line 710) and the return to _train_loop
TrainerReport ==
    /\ tpc = "report"
    /\ report_queue' = Append(report_queue, stats)
    /\ data' = NoData
    /\ stats' = NoStats
    /\ tpc' = "loop"
    /\ UNCHANGED <<learnerVars, latchVars, slotVars, coordVars, envVars,
                   policy_worker_queue,
                   sgd_steps, kl_old_mean, trained, terminate,
                   experience_buffer_queue, train_thread_initialized,
                   processing_experience_batch, task_queue>>

(***************************************************************************)
(* The environment: rollout worker, PBT controller, main process.          *)
(***************************************************************************)
\* the policy versions a policy worker may still act with
VersionsInUse == {policy_worker_queue[i] : i \in 1..Len(policy_worker_queue)}
\* the policy version of the last broadcast
LatestVersion ==
    IF policy_worker_queue = <<>> THEN {}
    ELSE {policy_worker_queue[Len(policy_worker_queue)]}

\* the rollout worker reclaims a free slot and fills it with a rollout
WorkerReclaim(s, v) ==
    /\ num_rollouts < MaxRollouts
    /\ traj_buffer_ready[s] = 1
    /\ s \notin filling
    /\ traj_buffer_ready' = [traj_buffer_ready EXCEPT ![s] = 0]
    /\ slot_version' = [slot_version EXCEPT ![s] = v]
    /\ filling' = filling \cup {s}
    /\ num_rollouts' = num_rollouts + 1
    /\ UNCHANGED <<learnerVars, latchVars, coordVars, trainVars, outVars,
                   rollout_tensors, num_pbt_tasks, terminate_sent, other_checkpoints, tmp_checkpoint,
                   rateVars,
                   initial_checkpoints, save_requested, callVars,
                   terminate, experience_buffer_queue, train_thread_initialized,
                   processing_experience_batch, task_queue>>

RECURSIVE SeqOfSet(_)
SeqOfSet(S) ==
    IF S = {} THEN <<>>
    ELSE LET m == CHOOSE x \in S : \A y \in S : x <= y
         IN  <<m>> \o SeqOfSet(S \ {m})

\* the rollout worker announces the rollouts it completed (TaskType.TRAIN)
WorkerAnnounce ==
    /\ filling # {}
    /\ \E es \in EnvStepsChoices :
         task_queue' = Append(task_queue,
            [type |-> "TRAIN",
             rollouts |-> [i \in 1..Cardinality(filling) |->
                             [env_idx |-> SeqOfSet(filling)[i],
                              length |-> cfg_rollout, env_steps |-> es]]])
    /\ filling' = {}
    /\ UNCHANGED <<learnerVars, latchVars, coordVars, trainVars, outVars, envVars,
                   rollout_tensors, traj_buffer_ready, slot_version,
                   terminate, experience_buffer_queue, train_thread_initialized,
                   processing_experience_batch>>

\* the PBT controller sends a request (TaskType.PBT)
PbtSend(t) ==
    /\ num_pbt_tasks < MaxPbtTasks
    /\ ~terminate_sent
    /\ task_queue' = Append(task_queue, [type |-> "PBT", task |-> t])
    /\ num_pbt_tasks' = num_pbt_tasks + 1
    /\ UNCHANGED <<learnerVars, latchVars, slotVars, coordVars, trainVars, outVars,
                   num_rollouts, terminate_sent, other_checkpoints, tmp_checkpoint,
                   rateVars, initial_checkpoints,
                   save_requested, callVars,
                   terminate, experience_buffer_queue, train_thread_initialized,
                   processing_experience_batch>>

\* close() (lines 890-891)
Close ==
    /\ ~terminate_sent
    /\ terminate_sent' = TRUE
    /\ task_queue' = Append(task_queue, [type |-> "TERMINATE"])
    /\ UNCHANGED <<learnerVars, latchVars, slotVars, coordVars, trainVars, outVars,
                   num_rollouts, num_pbt_tasks, other_checkpoints, tmp_checkpoint,
                   rateVars, initial_checkpoints,
                   save_requested, callVars,
                   terminate, experience_buffer_queue, train_thread_initialized,
                   processing_experience_batch>>

(***************************************************************************)
(* Specifications.                                                         *)
(***************************************************************************)
\* The learner with its rollout worker: intake, discard, assembly, training.
\* The steps of the two threads that every run takes.
LearnerSteps ==
    \/ CoordLoop \/ TaskQueueEmpty \/ TaskInit \/ TaskEmpty
    \/ TaskInitTensors \/ TaskTrain
    \/ CoordGate \/ CoordClear \/ CoordWait \/ ProcessRollouts \/ CoordSleep
    \/ TrainerInitialize \/ TrainerLoop \/ TrainerGet \/ TrainerGot
    \/ TrainerLoadPolicy \/ TrainerUpdateCfg
    \/ TrainerSaveClear \/ TrainerAdjustKl \/ TrainerPublish
    \/ TrainerReport

NextRollouts ==
    \/ LearnerSteps
    \/ TrainerSgdStep({7})
    \/ \E s \in Slots, v \in VersionsInUse : WorkerReclaim(s, v)
    \/ WorkerAnnounce

SpecRollouts == InitRollouts /\ [][NextRollouts]_vars

\* a second passes
Tick ==
    /\ clock < MaxClock
    /\ clock' = clock + 1
    /\ UNCHANGED <<learnerVars, latchVars, slotVars, coordVars, trainVars, outVars,
                   envQuiet, windowVars, discarding_rate,
                   terminate, experience_buffer_queue, train_thread_initialized,
                   processing_experience_batch, task_queue>>

\* macro_batch == batch_size, max_policy_lag reached after two batches; the
\* window fresh or full
InitRate ==
    /\ InitLearner(<<200000, 1>>, 1000, cfg_batch_size, {})
    /\ InitQueues
    /\ FreshWindow \/ FullWindow
    /\ minibatch_args = NoArgs
    /\ minibatches = NotCalled
    /\ gae_args = NoArgs
    /\ gae_buffer = NotCalled
    /\ batch_rollouts = <<>>
    /\ buffer = NoBuffer
    /\ other_checkpoints = [p \in OtherPolicies |-> {}]

\* The learner while time passes: the coordinator samples the discard
\* counter, the training thread reads the rate.
NextRate ==
    \/ LearnerSteps
    \/ \E s \in {1, 2}, v \in VersionsInUse :
          num_rollouts < MaxRateRollouts /\ WorkerReclaim(s, v)
    \/ WorkerAnnounce
    \/ TrainerSgdStep({7})
    \/ Tick

SpecRate == InitRate /\ [][NextRate]_vars

\* One environment feeds the learner with rollouts of the latest version.
OneEnvironment ==
    \/ \E v \in LatestVersion : WorkerReclaim(1, v)
    \/ WorkerAnnounce

\* The training thread under PBT: saves, loads, broadcasts.
NextPbt ==
    \/ LearnerSteps \/ OneEnvironment
    \/ TaskPbt \/ TrainerClearLoad
    \/ TrainerSgdStep({7})
    \/ \E t \in LoadModelTasks : num_pbt_tasks < MaxLonePbtTasks /\ PbtSend(t)

SpecPbt == InitPbt /\ [][NextPbt]_vars

\* the checkpoint that the learner of policy p saves next
NextOtherCheckpoint(p) ==
    LET n == IF other_checkpoints[p] = {} THEN 1
             ELSE LatestCheckpoint(other_checkpoints[p]).train_step + 1
    IN  CheckpointDict(n, 8 * n, <<300000, 1>>, <<p, n>>)

\* _save of the learner of policy p: torch.save opens checkpoint_tmp
\* (line 331)
OtherSaveOpen(p) ==
    /\ tmp_checkpoint[p] = NoFile
    /\ NextOtherCheckpoint(p).train_step <= MaxOtherTrainStep
    /\ tmp_checkpoint' = [tmp_checkpoint EXCEPT ![p] =
                            [content |-> NextOtherCheckpoint(p), complete |-> FALSE]]
    /\ UNCHANGED <<learnerVars, latchVars, slotVars, coordVars, trainVars, outVars,
                   num_rollouts, num_pbt_tasks, terminate_sent, other_checkpoints,
                   initial_checkpoints, save_requested, callVars, rateVars,
                   terminate, experience_buffer_queue, train_thread_initialized,
                   processing_experience_batch, task_queue>>

\* torch.save returns: checkpoint_tmp is written (line 331)
OtherSaveWritten(p) ==
    /\ tmp_checkpoint[p] # NoFile
    /\ ~tmp_checkpoint[p].complete
    /\ tmp_checkpoint' = [tmp_checkpoint EXCEPT ![p].complete = TRUE]
    /\ UNCHANGED <<learnerVars, latchVars, slotVars, coordVars, trainVars, outVars,
                   num_rollouts, num_pbt_tasks, terminate_sent, other_checkpoints,
                   initial_checkpoints, save_requested, callVars, rateVars,
                   terminate, experience_buffer_queue, train_thread_initialized,
                   processing_experience_batch, task_queue>>

\* os.rename and the removal of the oldest checkpoints (lines 333-339)
OtherSaveRename(p) ==
    /\ tmp_checkpoint[p] # NoFile
    /\ tmp_checkpoint[p].complete
    /\ other_checkpoints' = [other_checkpoints EXCEPT ![p] =
                               SaveInto(@, tmp_checkpoint[p].content)]
    /\ tmp_checkpoint' = [tmp_checkpoint EXCEPT ![p] = NoFile]
    /\ UNCHANGED <<learnerVars, latchVars, slotVars, coordVars, trainVars, outVars,
                   num_rollouts, num_pbt_tasks, terminate_sent,
                   initial_checkpoints, save_requested, callVars, rateVars,
                   terminate, experience_buffer_queue, train_thread_initialized,
                   processing_experience_batch, task_queue>>

\* The learner loading another policy's checkpoint while that policy's
\* learner, another process, saves.
NextTmp ==
    \/ LearnerSteps \/ OneEnvironment
    \/ TaskPbt \/ TrainerClearLoad
    \/ TrainerSgdStep({7})
    \/ \E t \in LoadModelTasks : num_pbt_tasks < MaxLonePbtTasks /\ PbtSend(t)
    \/ \E p \in OtherPolicies :
          OtherSaveOpen(p) \/ OtherSaveWritten(p) \/ OtherSaveRename(p)

SpecTmp == InitPbt /\ [][NextTmp]_vars

\* The training thread saving checkpoints, on schedule and on request.
NextSave ==
    \/ LearnerSteps \/ OneEnvironment
    \/ TaskPbt
    \/ TrainerSgdStep({7})
    \/ \E t \in SaveModelTasks : num_pbt_tasks < MaxLonePbtTasks /\ PbtSend(t)

SpecSave == InitSave /\ [][NextSave]_vars

\* kl_coeff: every measured KL, every stored kl_coeff.
NextKl ==
    \/ LearnerSteps
    \/ \E v \in LatestVersion : num_rollouts < MaxKlRollouts /\ WorkerReclaim(1, v)
    \/ WorkerAnnounce
    \/ TaskPbt \/ TrainerClearLoad
    \/ TrainerSgdStep(KlMeasurements)
    \/ \E t \in LoadModelTasks : num_pbt_tasks < MaxLonePbtTasks /\ PbtSend(t)

SpecKl == InitKl /\ [][NextKl]_vars

\* Several PBT requests in one run: LOAD_MODEL and UPDATE_CFG latched by the
\* coordinator while the training thread applies and clears them.
NextLatch ==
    \/ LearnerSteps
    \/ \E v \in LatestVersion : num_rollouts < MaxKlRollouts /\ WorkerReclaim(1, v)
    \/ WorkerAnnounce
    \/ TaskPbt \/ TrainerClearLoad \/ TrainerClearCfg
    \/ TrainerSgdStep({7})
    \/ \E t \in LoadModelTasks \cup UpdateCfgTasks : PbtSend(t)

SpecLatch == InitPbt /\ [][NextLatch]_vars

\* The learner with _process_rollouts taken step by step, so that the
\* rollout worker may reclaim a slot between the release and the put.
NextAssemble ==
    \/ CoordLoop \/ TaskQueueEmpty \/ TaskInit \/ TaskEmpty
    \/ TaskInitTensors \/ TaskTrain
    \/ CoordGate \/ CoordClear \/ CoordWait \/ CoordSleep
    \/ AssembleSlice \/ PrepareCopy \/ PrepareFree \/ MacroBatchPut
    \/ TrainerInitialize \/ TrainerLoop \/ TrainerGet \/ TrainerGot
    \/ TrainerLoadPolicy \/ TrainerUpdateCfg
    \/ TrainerSgdStep({7}) \/ TrainerSaveClear \/ TrainerAdjustKl \/ TrainerPublish
    \/ TrainerReport
    \/ \E s \in {1, 2}, v \in LatestVersion : WorkerReclaim(s, v)
    \/ WorkerAnnounce

SpecAssemble == InitRollouts /\ [][NextAssemble]_vars

\* A checkpoint is saved, training goes on and moves kl_coeff, then the
\* controller asks for a checkpoint to be loaded back.
NextRestore ==
    \/ LearnerSteps
    \/ \E v \in LatestVersion : num_rollouts < MaxRestoreRollouts /\ WorkerReclaim(1, v)
    \/ WorkerAnnounce
    \/ TaskPbt \/ TrainerClearLoad
    \/ TrainerSgdStep({7, 30})
    \/ \E t \in LoadModelTasks : num_pbt_tasks < MaxLonePbtTasks /\ PbtSend(t)

SpecRestore == InitPbt /\ [][NextRestore]_vars

(***************************************************************************)
(* _get_minibatches (lines 239-259).                                       *)
(***************************************************************************)
\* np.arange(start, stop, step)
Arange(start, stop, step) ==
    IF stop <= start THEN <<>>
    ELSE [i \in 1..((stop - start + step - 1) \div step) |-> start + (i - 1) * step]

\* np.concatenate
RECURSIVE Concatenate(_)
Concatenate(arrays) ==
    IF arrays = <<>> THEN <<>>
    ELSE Head(arrays) \o Concatenate(Tail(arrays))

\* a shuffle that may repeat a position: sampling with replacement
Samples(n) == [1..n -> 1..n]

\* the outcomes of np.random.permutation on n elements, as orders of 1..n
RECURSIVE Orders(_)
Orders(S) ==
    IF S = {} THEN {<<>>}
    ELSE UNION {{<<x>> \o o : o \in Orders(S \ {x})} : x \in S}

Shuffles(n) == Orders(1..n)

\* np.split(indices, n): n equal parts, ValueError when n does not divide
Split(indices, n) ==
    LET size == Len(indices) \div n
    IN  [k \in 1..n |-> SubSeq(indices, (k - 1) * size + 1, k * size)]

\* the number of mini-trajectory starts (line 248)
NumStarts(a) == Len(Arange(0, a.experience_size, a.recurrence))

\* _get_minibatches(experience_size) under the shuffle outcome
get_minibatches(a, shuffle) ==
    IF a.rollout % a.recurrence # 0 \/ a.experience_size % a.batch_size # 0
    THEN [kind |-> "AssertionError"]
    ELSE IF a.macro_batch = a.batch_size
    THEN [kind |-> "whole"]
    ELSE LET starts == Arange(0, a.experience_size, a.recurrence)
             permuted == [i \in 1..Len(starts) |-> starts[shuffle[i]]]
             indices == Concatenate([i \in 1..Len(starts) |->
                            Arange(permuted[i], permuted[i] + a.recurrence, 1)])
             num_minibatches == a.experience_size \div a.batch_size
         IN  IF Len(indices) # a.experience_size
             THEN [kind |-> "AssertionError"]
             ELSE IF Len(indices) % num_minibatches # 0
             THEN [kind |-> "ValueError"]
             ELSE [kind |-> "indices", value |-> Split(indices, num_minibatches)]

\* the arguments of a call: any sizes, macro_batch equal to batch_size or to
\* the experience size
MinibatchArgs ==
    {a \in [experience_size : 1..MaxExperienceSize,
            rollout : 1..(MaxRecurrence + 1),
            recurrence : 1..MaxRecurrence,
            batch_size : 1..MaxExperienceSize,
            macro_batch : 1..MaxExperienceSize] :
        a.macro_batch \in {a.experience_size, a.batch_size}}

InitMinibatches ==
    /\ InitLearner(<<200000, 1>>, 1000, cfg_batch_size, {})
    /\ InitWorkers
    /\ other_checkpoints = [p \in OtherPolicies |-> {}]
    /\ minibatch_args \in MinibatchArgs
    /\ minibatches = NotCalled
    /\ gae_args = NoArgs
    /\ gae_buffer = NotCalled
    /\ batch_rollouts = <<>>
    /\ buffer = NoBuffer

\* one call of _get_minibatches
GetMinibatches ==
    /\ minibatches = NotCalled
    /\ \E shuffle \in Shuffles(NumStarts(minibatch_args)) :
          minibatches' = get_minibatches(minibatch_args, shuffle)
    /\ UNCHANGED <<learnerVars, latchVars, slotVars, coordVars, trainVars, outVars,
                   num_rollouts, num_pbt_tasks, terminate_sent, other_checkpoints, tmp_checkpoint,
                   rateVars,
                   initial_checkpoints, save_requested, minibatch_args, gaeVars,
                   assembleVars,
                   terminate, experience_buffer_queue, train_thread_initialized,
                   processing_experience_batch, task_queue>>

SpecMinibatches == InitMinibatches /\ [][GetMinibatches]_vars

(***************************************************************************)
(* Registration of the rollout tensors (SpecTensors).                      *)
(***************************************************************************)
\* handles of shared tensors
TensorHandles == {10, 20}

\* the items of one INIT_TENSORS message: one or two distinct slot keys, in
\* any order, with the handles of one allocation
RegistrationItems ==
    {<<<<k, h>>>> : k \in Slots, h \in TensorHandles} \cup
    {<<<<kk[1], h>>, <<kk[2], h>>>> :
        kk \in {x \in Slots \X Slots : x[1] # x[2]}, h \in TensorHandles}

PendingRegistrations ==
    Len(SelectSeq(task_queue, LAMBDA m : m.type = "INIT_TENSORS"))

\* a rollout worker sends INIT_TENSORS (TaskType.INIT_TENSORS)
WorkerRegister(items) ==
    /\ PendingRegistrations < MaxPendingRegistrations
    /\ task_queue' = Append(task_queue, [type |-> "INIT_TENSORS", tensors |-> items])
    /\ UNCHANGED <<learnerVars, latchVars, slotVars, coordVars, trainVars, outVars,
                   envVars, terminate, experience_buffer_queue,
                   train_thread_initialized, processing_experience_batch>>

\* nothing registered yet
InitTensors ==
    /\ InitLearner(<<200000, 1>>, 1000, cfg_batch_size, {})
    /\ task_queue = <<[type |-> "INIT"], [type |-> "EMPTY"]>>
    /\ traj_buffer_ready = [s \in Slots |-> 1]
    /\ slot_version = [s \in Slots |-> 0]
    /\ filling = {}
    /\ tmp_checkpoint = [p \in OtherPolicies |-> NoFile]
    /\ FreshWindow
    /\ num_rollouts = 0
    /\ num_pbt_tasks = 0
    /\ num_batches = 0
    /\ trained = <<>>
    /\ terminate_sent = FALSE
    /\ save_requested = FALSE
    /\ minibatch_args = NoArgs
    /\ minibatches = NotCalled
    /\ gae_args = NoArgs
    /\ gae_buffer = NotCalled
    /\ batch_rollouts = <<>>
    /\ buffer = NoBuffer
    /\ other_checkpoints = [p \in OtherPolicies |-> {}]

\* The coordinator while rollout workers register their tensors; no rollout
\* is announced, the training thread waits for its first batch.
NextTensors ==
    \/ CoordLoop \/ TaskQueueEmpty \/ TaskInit \/ TaskEmpty \/ TaskInitTensors
    \/ CoordGate \/ ProcessRollouts \/ CoordSleep
    \/ TrainerInitialize \/ TrainerLoop
    \/ \E items \in RegistrationItems : WorkerRegister(items)

SpecTensors == InitTensors /\ [][NextTensors]_vars

(***************************************************************************)
(* _calculate_gae (lines 105-131).                                         *)
(***************************************************************************)
\* the fake value after the last step of a rollout (line 115); gamma is 1
\* in every call explored, the division is exact
NextValue(last_value, last_reward, gamma) ==
    (last_value - last_reward) \div gamma

\* calculate_gae of algorithms.utils.algo_utils, the standard recurrence,
\* for one rollout: the advantage at step t given the values [T+1]
RECURSIVE GaeAt(_, _, _, _, _, _)
GaeAt(t, rewards, dones, values, gamma, gae_lambda) ==
    LET not_done_gamma == (1 - dones[t]) * gamma
        delta == rewards[t] + not_done_gamma * values[t + 1] - values[t]
    IN  IF t = Len(rewards) THEN delta
        ELSE delta + not_done_gamma * gae_lambda *
                     GaeAt(t + 1, rewards, dones, values, gamma, gae_lambda)

\* _calculate_gae for one rollout (one row of the [E, T] arrays)
CalculateGaeRow(r, gamma, gae_lambda) ==
    LET T == Len(r.rewards)
        values == Append(r.values, NextValue(r.values[T], r.rewards[T], gamma))
        advantages == [t \in 1..T |->
                         GaeAt(t, r.rewards, r.dones, values, gamma, gae_lambda)]
    IN  [advantages |-> advantages,
         returns |-> [t \in 1..T |-> advantages[t] + values[t]]]

\* the shape of np.array(buffer.values).squeeze() (line 108): every axis of
\* length 1 is removed from [E, T]
SqueezedShape(E, T) ==
    IF E = 1 /\ T = 1 THEN <<>>
    ELSE IF E = 1 THEN <<T>>
    ELSE IF T = 1 THEN <<E>>
    ELSE <<E, T>>

\* _calculate_gae(buffer): buffer.advantages and buffer.returns, [E, T].
\* len() of a 0-d array raises TypeError (line 113); values_arr[i][-1] on a
\* 1-d array indexes a scalar and raises IndexError (line 114).
CalculateGae(a) ==
    LET shape == SqueezedShape(Len(a.rollouts), Len(a.rollouts[1].rewards))
    IN  IF shape = <<>> THEN [kind |-> "TypeError"]
        ELSE IF Len(shape) = 1 THEN [kind |-> "IndexError"]
        ELSE [kind |-> "gae",
              advantages |-> [i \in 1..Len(a.rollouts) |->
                  CalculateGaeRow(a.rollouts[i], a.gamma, a.gae_lambda).advantages],
              returns |-> [i \in 1..Len(a.rollouts) |->
                  CalculateGaeRow(a.rollouts[i], a.gamma, a.gae_lambda).returns]]

\* a rollout of length T with rewards 1, dones 0 and values 0
OnesRollout(T) ==
    [rewards |-> [t \in 1..T |-> 1], dones |-> [t \in 1..T |-> 0],
     values |-> [t \in 1..T |-> 0]]

\* the buffers of one rollout, or of two, of any length up to MaxGaeLength,
\* rewards, dones and values 0 or 1, gamma 1, gae_lambda 0 or 1
GaeRollouts(T) ==
    [rewards : [1..T -> {0, 1}], dones : [1..T -> {0, 1}], values : [1..T -> {0, 1}]]

GaeArgs ==
    UNION {[rollouts : {<<r>> : r \in GaeRollouts(T)} \cup
                       {<<OnesRollout(T), r>> : r \in GaeRollouts(T)},
            gamma : {1}, gae_lambda : {0, 1}] : T \in 1..MaxGaeLength}

InitGae ==
    /\ InitLearner(<<200000, 1>>, 1000, cfg_batch_size, {})
    /\ InitWorkers
    /\ other_checkpoints = [p \in OtherPolicies |-> {}]
    /\ minibatch_args = NoArgs
    /\ minibatches = NotCalled
    /\ gae_args \in GaeArgs
    /\ gae_buffer = NotCalled
    /\ batch_rollouts = <<>>
    /\ buffer = NoBuffer

\* one call of _calculate_gae
TrainBufferGae ==
    /\ gae_buffer = NotCalled
    /\ gae_buffer' = CalculateGae(gae_args)
    /\ UNCHANGED <<learnerVars, latchVars, slotVars, coordVars, trainVars, outVars,
                   num_rollouts, num_pbt_tasks, terminate_sent, other_checkpoints, tmp_checkpoint,
                   rateVars,
                   initial_checkpoints, save_requested, minibatch_args, minibatches,
                   gae_args, assembleVars,
                   terminate, experience_buffer_queue, train_thread_initialized,
                   processing_experience_batch, task_queue>>

SpecGae == InitGae /\ [][TrainBufferGae]_vars

\* one or two minibatches per _train call, kl_coeff 0.2, an empty directory
InitTrain ==
    /\ \E mb \in MacroBatches : InitLearner(<<200000, 1>>, 1000, mb, {})
    /\ InitEnv
    /\ other_checkpoints = [p \in OtherPolicies |-> {}]

\* _train with one or two optimizer steps, each measuring any KL; two slots
\* feed the macro batch.
NextTrain ==
    \/ LearnerSteps
    \/ TrainerSgdStep(KlMeasurements)
    \/ \E s \in {1, 2}, v \in LatestVersion : WorkerReclaim(s, v)
    \/ WorkerAnnounce

SpecTrain == InitTrain /\ [][NextTrain]_vars

\* macro_batch == batch_size, an empty directory, no other policy
InitTerminate ==
    /\ InitLearner(<<200000, 1>>, 1000, cfg_batch_size, {})
    /\ InitEnv
    /\ other_checkpoints = [p \in OtherPolicies |-> {}]

\* the steps of the coordinator thread, with its shutdown
CoordinatorSteps ==
    \/ CoordLoop \/ TaskQueueEmpty \/ TaskInit \/ TaskEmpty
    \/ TaskInitTensors \/ TaskTrain \/ TaskTerminate
    \/ CoordGate \/ CoordClear \/ CoordWait \/ ProcessRollouts \/ CoordSleep
    \/ CoordShutdown \/ CoordJoin

\* the steps of the training thread
TrainingSteps ==
    \/ TrainerInitialize \/ TrainerLoop \/ TrainerGet \/ TrainerGot
    \/ TrainerLoadPolicy \/ TrainerUpdateCfg
    \/ TrainerSgdStep({7}) \/ TrainerSaveClear \/ TrainerAdjustKl \/ TrainerPublish
    \/ TrainerReport

\* A run that the main process ends with close(), with both threads scheduled
\* fairly: a thread that can take a step eventually takes one.
NextTerminate ==
    \/ CoordinatorSteps
    \/ TrainingSteps
    \/ \E v \in LatestVersion : num_rollouts < MaxKlRollouts /\ WorkerReclaim(1, v)
    \/ WorkerAnnounce
    \/ Close

SpecTerminate ==
    /\ InitTerminate
    /\ [][NextTerminate]_vars
    /\ WF_vars(CoordinatorSteps)
    /\ WF_vars(TrainingSteps)

(***************************************************************************)
(* Slots and readiness bits (SpecRollouts).                                *)
(***************************************************************************)
\* the rollout descriptors of the pending list that reference slot s
Refs(s) == Cardinality({i \in 1..Len(rollouts) : rollouts[i].env_idx = s})

\* the rollout descriptors of slot s in TRAIN messages not yet taken in
Announced(s) ==
    Cardinality({<<i, j>> \in (1..Len(task_queue)) \X (1..NumSlots) :
                   /\ task_queue[i].type = "TRAIN"
                   /\ j <= Len(task_queue[i].rollouts)
                   /\ task_queue[i].rollouts[j].env_idx = s})

\* 1 while the rollout worker writes a rollout into slot s
Filling(s) == IF s \in filling THEN 1 ELSE 0

Batches ==
    {experience_buffer_queue[i] : i \in 1..Len(experience_buffer_queue)}
      \cup (IF data = NoData THEN {} ELSE {data})

Lag(b, i) == b.read_train_step - b.policy_version[i]

\* C2 as stated: every rollout of every macro-batch has a lag below
\* max_policy_lag for the train_step read by the call that assembled it.
C2_AsStated ==
    \A b \in Batches : \A i \in 1..Len(b.policy_version) :
       Lag(b, i) < cfg_max_policy_lag

\* C2, amended: the first rollout of every macro-batch has a lag below
\* max_policy_lag for the train_step read by the call that assembled it (the
\* rollouts behind it are not tested).
C2_HeadOfBatchFresh ==
    \A b \in Batches : Lag(b, 1) < cfg_max_policy_lag

\* a macro-batch assembled by a call that discarded a stale head
C2_Witness ==
    /\ num_discarded_rollouts >= 1
    /\ \E b \in Batches : b.read_train_step >= cfg_max_policy_lag

(***************************************************************************)
(* Back-pressure and order of training (SpecRollouts).                     *)
(***************************************************************************)
\* the macro-batches assembled and not yet trained to the end
Unfinished == Cardinality(Batches)

\* C9 as stated: at most two assembled macro-batches are unfinished.
C9_AsStated == Unfinished <= 2

\* C9, amended: at most two macro-batches wait in the experience queue, so at
\* most three are unfinished: one being trained and two waiting.
C9_AtMostThreeUnfinished ==
    /\ Len(experience_buffer_queue) <= 2
    /\ Unfinished <= 3

\* one macro-batch is being trained and two wait
C9_Witness ==
    /\ tpc = "sgd"
    /\ Len(experience_buffer_queue) = 2
    /\ Unfinished = 3

\* C10: the training worker trains the macro-batches in the order of their
\* assembly, one at a time: the i-th batch trained is the i-th batch enqueued,
\* and the batch in training is the last one taken.
C10_FifoTraining ==
    /\ \A i \in 1..Len(trained) : trained[i].id = i
    /\ tpc = "train" => data.id = Len(trained) + 1
    /\ tpc \in {"pbt_clear", "pbt_cfg", "pbt_cfg_clear", "sgd", "save_clear", "trained",
                "report"} =>
          data.id = Len(trained)

\* the third batch is in training while the fourth waits behind it
C10_Witness ==
    /\ Len(trained) = 3
    /\ tpc = "sgd"
    /\ experience_buffer_queue # <<>>

(***************************************************************************)
(* Versions broadcast and train_step under PBT (SpecPbt).                  *)
(***************************************************************************)
\* C3 as stated: every UPDATE_WEIGHTS message carries a policy_version
\* strictly greater than the message before it.
C3_AsStated ==
    \A i \in 2..Len(policy_worker_queue) :
       policy_worker_queue[i] > policy_worker_queue[i - 1]

\* C3, amended: the message sent after a batch carries a policy_version
\* strictly greater than the message before it, unless _update_pbt loaded the
\* learner's own checkpoint for that batch (LOAD_MODEL with new_policy_id equal
\* to the learner's policy id).  Message 1 is the broadcast of initialize,
\* message i + 1 the broadcast after the i-th batch.
C3_BroadcastsIncreaseUnlessOwnLoad ==
    \A i \in 2..Len(policy_worker_queue) :
       \/ policy_worker_queue[i] > policy_worker_queue[i - 1]
       \/ trained[i - 1].loaded = policy_id

\* three batches were broadcast, one of them after a load from another policy
C3_Witness ==
    /\ Len(policy_worker_queue) >= 4
    /\ \E i \in 1..3 : trained[i].loaded \in OtherPolicies

\* the largest train_step of the checkpoints of a directory
MaxTrainStep(dir) ==
    CHOOSE n \in {c.train_step : c \in dir} : \A c \in dir : c.train_step <= n

\* C4 as stated: train_step never decreases.
C4_AsStated == [][train_step' >= train_step]_vars

\* C4, amended: train_step changes only in three ways: initialize sets it to
\* the train_step of the latest own checkpoint, if there is one; an optimizer
\* step adds 1; and _update_pbt, when the latched LOAD_MODEL names the
\* learner's own policy id, sets it to the largest train_step of the own
\* checkpoints, which may be lower than the current one.  A LOAD_MODEL of
\* another policy leaves it as it is.
C4_TrainStepChanges ==
    [][\/ train_step' = train_step
       \/ tpc = "sgd" /\ train_step' = train_step + 1
       \/ /\ tpc = "init" \/ (tpc = "train" /\ load_policy_id = policy_id)
          /\ checkpoints # {}
          /\ train_step' = MaxTrainStep(checkpoints)]_vars

\* a load from another policy was applied when train_step was above the
\* train_step stored in that policy's checkpoint
C4_Witness ==
    /\ tpc = "pbt_clear"
    /\ trained[Len(trained)].loaded \in OtherPolicies
    /\ model[1] \in OtherPolicies
    /\ train_step >= 2

(***************************************************************************)
(* Checkpoint rotation (SpecSave).                                         *)
(***************************************************************************)
\* C7: after every return of _save the directory holds at most
\* keep_checkpoints checkpoints.
C7_AtMostKeepCheckpoints ==
    Len(saved) > 0 => Cardinality(checkpoints) <= cfg_keep_checkpoints

\* _save has just returned in a directory that held three checkpoints
C7_Witness ==
    /\ tpc = "save_clear"
    /\ Len(saved) = 1
    /\ Cardinality(initial_checkpoints) > cfg_keep_checkpoints

\* the last n elements of a sequence, as a set
LastOf(sq, n) == {sq[i] : i \in (Len(sq) - n + 1)..Len(sq)}

Min(a, b) == IF a < b THEN a ELSE b

\* C8: after n saves at increasing train_step into a directory that was empty
\* at start-up, the directory holds exactly the last min(n, keep_checkpoints)
\* checkpoints saved; so up to keep_checkpoints saves nothing is deleted.
C8_KeepsTheLatest ==
    (/\ initial_checkpoints = {}
     /\ \A i \in 2..Len(saved) : saved[i].train_step > saved[i - 1].train_step)
      => /\ checkpoints = LastOf(saved, Min(Len(saved), cfg_keep_checkpoints))
         /\ Len(saved) <= cfg_keep_checkpoints => checkpoints = LastOf(saved, Len(saved))

\* the third save into an empty directory has deleted the first checkpoint
C8_Witness ==
    /\ initial_checkpoints = {}
    /\ tpc = "save_clear"
    /\ Len(saved) = cfg_keep_checkpoints + 1
    /\ saved[1] \notin checkpoints

(***************************************************************************)
(* The floor of kl_coeff (SpecKl).                                         *)
(***************************************************************************)
\* C5: when _train returns, kl_coeff >= 1e-6, whatever it was on entry and
\* whatever KL was measured.
C5_FloorAfterTrain == tpc = "trained" => RatGeq(kl_coeff, KlFloor)

\* _train has returned after a decrease that the floor stopped
C5_Witness ==
    /\ tpc = "trained"
    /\ 2 * kl_old_mean < cfg_target_kl
    /\ kl_coeff = KlFloor

\* C6 as stated: kl_coeff >= 1e-6 in every state.
C6_AsStated == RatGeq(kl_coeff, KlFloor)

\* the checkpoints a run finds: its own at start-up and those of the others
FoundCheckpoints ==
    initial_checkpoints \cup UNION {other_checkpoints[p] : p \in OtherPolicies}

\* C6, amended: if initial_kl_coeff >= 1e-6 and every checkpoint found in the
\* own directory at start-up or in the directory of another policy stores a
\* kl_coeff >= 1e-6, then kl_coeff >= 1e-6 in every state and every
\* checkpoint the learner writes stores a kl_coeff >= 1e-6.  Nothing raises a
\* configured or loaded value to the floor before the end of the next _train.
C6_FloorGivenInputs ==
    (/\ RatGeq(cfg.initial_kl_coeff, KlFloor)
     /\ \A c \in FoundCheckpoints : RatGeq(c.kl_coeff, KlFloor))
      => /\ RatGeq(kl_coeff, KlFloor)
         /\ \A c \in checkpoints : RatGeq(c.kl_coeff, KlFloor)

\* a load from another policy has just replaced the kl_coeff of a run that was
\* configured with the floor as initial_kl_coeff
C6_Witness ==
    /\ RatGeq(cfg.initial_kl_coeff, KlFloor)
    /\ \A c \in FoundCheckpoints : RatGeq(c.kl_coeff, KlFloor)
    /\ tpc = "pbt_clear"
    /\ trained[Len(trained)].loaded \in OtherPolicies
    /\ kl_coeff = <<300000, 1>>
    /\ cfg.initial_kl_coeff = KlFloor

(***************************************************************************)
(* What one call of _process_rollouts discards (SpecRollouts).             *)
(***************************************************************************)
\* the i-th rollout of the pending list is stale for the current train_step
StaleAt(i) == train_step - slot_version[rollouts[i].env_idx] >= cfg_max_policy_lag

\* the length of the maximal prefix of stale rollouts of the pending list
StalePrefix ==
    CHOOSE k \in 0..Len(rollouts) :
       /\ \A i \in 1..k : StaleAt(i)
       /\ k = Len(rollouts) \/ ~StaleAt(k + 1)

\* the call of _process_rollouts at hand reaches the lag check
ReachesLagCheck == cpc = "process" /\ Len(rollouts) >= rollouts_in_macro_batch

\* the pending list behind its stale prefix
BehindStalePrefix == SubSeq(rollouts, StalePrefix + 1, Len(rollouts))

\* C11: a call of _process_rollouts (the step of the coordinator from
\* "process" to "loop" or "sleep") that reaches the lag check discards
\* exactly the maximal stale prefix of the pending list: the counter grows by
\* the length of the prefix, the slot of each rollout of the prefix is
\* released, and every rollout behind the prefix either stays in the pending
\* list or goes into the macro-batch assembled by the call.
C11_DiscardsMaximalStalePrefix ==
    [][(ReachesLagCheck /\ cpc' \in {"loop", "sleep"}) =>
         /\ num_discarded_rollouts' = num_discarded_rollouts + StalePrefix
         /\ \A i \in 1..StalePrefix : traj_buffer_ready'[rollouts[i].env_idx] = 1
         /\ \/ /\ rollouts' = BehindStalePrefix
               /\ num_batches' = num_batches
            \/ /\ rollouts' = SubSeq(BehindStalePrefix, rollouts_in_macro_batch + 1,
                                      Len(BehindStalePrefix))
               /\ num_batches' = num_batches + 1
               /\ experience_buffer_queue'[Len(experience_buffer_queue')].policy_version =
                    [i \in 1..rollouts_in_macro_batch |->
                       slot_version[BehindStalePrefix[i].env_idx]]]_vars

\* a call has discarded a stale head and left the fresh rollout behind it in
\* the pending list
C11_Witness ==
    /\ cpc \in {"loop", "sleep"}
    /\ num_discarded_rollouts >= 1
    /\ \E i \in 1..Len(rollouts) : ~StaleAt(i)
    /\ traj_buffer_ready # [s \in Slots |-> 0]

\* the pending list is n stale rollouts followed by n rollouts of the current
\* version, n being rollouts_in_macro_batch
StaleThenFresh ==
    /\ Len(rollouts) = 2 * rollouts_in_macro_batch
    /\ \A i \in 1..rollouts_in_macro_batch : StaleAt(i)
    /\ \A i \in (rollouts_in_macro_batch + 1)..Len(rollouts) :
          slot_version[rollouts[i].env_idx] = train_step

C13_AsStated ==
    [][(save_requested /\ train_step' = train_step + 1) =>
         Len(saved') = Len(saved) + 1]_vars

\* the request was latched after _maybe_save read the flag and is cleared by
\* line 300: no save is due although a request was processed
C13_RequestLost ==
    /\ save_requested
    /\ ~should_save_model
    /\ tpc = "sgd"
    /\ sgd_steps < NumSgdSteps
    /\ ~ShouldSave(train_step + 1)

\* one optimizer step of the training thread, with _after_optimizer_step
OptimizerStep == tpc = "sgd" /\ sgd_steps' = sgd_steps + 1

\* C26: an optimizer step saves a checkpoint exactly when train_step -
\* last_saved has reached the save interval or should_save_model is set;
\* the save sets model_saved_event and _maybe_save then clears
\* should_save_model and sets last_saved to train_step; a step that does not
\* save leaves should_save_model, last_saved and the directory as they were,
\* and nothing else writes a checkpoint.
C26_SaveIffDueOrRequested ==
    [][/\ OptimizerStep =>
            IF \/ train_step' - last_saved >= SaveRateAt(train_step')
               \/ should_save_model
            THEN /\ saved' = Append(saved, CheckpointDict(train_step', env_steps,
                                                          kl_coeff, model'))
                 /\ saved'[Len(saved')] \in checkpoints'
                 /\ model_saved_event'
                 /\ tpc' = "save_clear"
            ELSE /\ saved' = saved
                 /\ checkpoints' = checkpoints
                 /\ should_save_model' = should_save_model
                 /\ last_saved' = last_saved
                 /\ model_saved_event' = model_saved_event
                 /\ tpc' = "sgd"
       /\ (tpc = "save_clear" /\ tpc' # "save_clear") =>
            /\ ~should_save_model'
            /\ last_saved' = train_step'
            /\ model_saved_event'
            /\ saved' = saved /\ checkpoints' = checkpoints
       /\ (saved' # saved \/ checkpoints' # checkpoints) => OptimizerStep]_vars

\* a save made on request, the interval not elapsed, after an optimizer step
\* that did not save
C26_Witness ==
    /\ tpc = "save_clear"
    /\ should_save_model
    /\ train_step - last_saved < SaveRateAt(train_step)
    /\ train_step - last_saved >= 2
    /\ last_saved > 0

(***************************************************************************)
(* The latches load_policy_id and new_cfg (SpecLatch).                     *)
(***************************************************************************)
\* the policy id that _update_pbt loaded for the batch in training
AppliedLoad == IF trained = <<>> THEN NoPolicy ELSE trained[Len(trained)].loaded

\* C14 as stated: no latched LOAD_MODEL or UPDATE_CFG request is replaced or
\* cleared without having been applied: a latched load_policy_id changes only
\* by being cleared after _update_pbt loaded that policy, and a latched
\* new_cfg changes only by being cleared after _update_pbt applied that cfg.
C14_AsStated ==
    [][/\ (load_policy_id # NoPolicy /\ load_policy_id' # load_policy_id) =>
            (load_policy_id' = NoPolicy /\ AppliedLoad = load_policy_id)
       /\ (new_cfg # NoCfg /\ new_cfg' # new_cfg) =>
            (new_cfg' = NoCfg /\ optimizer_lr = new_cfg.learning_rate)]_vars

\* _update_pbt has loaded one policy, the coordinator has latched another
\* since, and line 599 is about to clear the latch
C14_RequestLost ==
    /\ tpc = "pbt_clear"
    /\ load_policy_id # NoPolicy
    /\ load_policy_id # AppliedLoad
    /\ AppliedLoad # NoPolicy

\* C15: PBT changes the parameters, kl_coeff and the optimizer's
\* hyperparameters only in _update_pbt on the training thread, before the
\* first optimizer step of the iteration: the model is replaced and kl_coeff
\* loaded only by the step at "train" (or by initialize), cfg and the learning
\* rate change only by the step at "pbt_cfg"; between the optimizer steps of
\* one _train call the model changes only by the optimizer and kl_coeff only
\* by the adjustment at the end; a step of the coordinator changes none of
\* them, it only writes the latches.
C15_PbtOnlyInUpdatePbt ==
    [][/\ model' # model =>
            \/ tpc \in {"init", "train"} /\ tpc' # tpc
            \/ tpc = "sgd" /\ model' = <<model[1], model[2] + 1>>
       /\ kl_coeff' # kl_coeff =>
            \/ tpc \in {"init", "train"} /\ tpc' # tpc
            \/ tpc = "sgd" /\ tpc' = "trained"
       /\ (cfg' # cfg \/ optimizer_lr' # optimizer_lr) =>
            tpc = "pbt_cfg" /\ tpc' = "pbt_cfg_clear"
       /\ (cpc' # cpc \/ Len(task_queue') < Len(task_queue)) =>
            UNCHANGED <<model, kl_coeff, cfg, optimizer_lr, train_step, env_steps>>]_vars

\* both kinds of request have been applied and an optimizer step made after
C15_Witness ==
    /\ tpc = "sgd"
    /\ sgd_steps = NumSgdSteps
    /\ optimizer_lr # 1
    /\ model[1] \in OtherPolicies

(***************************************************************************)
(* The load of another policy (SpecPbt).                                   *)
(***************************************************************************)
\* the checkpoint of a directory with the largest train_step
NewestOf(dir) == CHOOSE c \in dir : \A d \in dir : d.train_step <= c.train_step

\* C16: applying LOAD_MODEL with a source other than the learner's policy id
\* replaces the model (parameters and optimizer state) and kl_coeff by those
\* of the source's latest checkpoint and leaves train_step and env_steps as
\* they are (env_steps has the batch's env_steps added by line 680 before).
C16_LoadOtherKeepsProgress ==
    [][(tpc = "train" /\ tpc' # tpc /\ load_policy_id \in OtherPolicies) =>
         /\ model' = NewestOf(other_checkpoints[load_policy_id]).model
         /\ kl_coeff' = NewestOf(other_checkpoints[load_policy_id]).kl_coeff
         /\ train_step' = train_step
         /\ env_steps' = env_steps + data.env_steps]_vars

\* the learner, ahead of the other policy's checkpoint in train_step, has just
\* loaded it
C16_Witness ==
    /\ tpc = "pbt_clear"
    /\ AppliedLoad \in OtherPolicies
    /\ model = NewestOf(other_checkpoints[AppliedLoad]).model
    /\ kl_coeff = NewestOf(other_checkpoints[AppliedLoad]).kl_coeff
    /\ train_step > NewestOf(other_checkpoints[AppliedLoad]).train_step
    /\ env_steps # NewestOf(other_checkpoints[AppliedLoad]).env_steps

(***************************************************************************)
(* The adjustment of kl_coeff per _train call (SpecTrain).                 *)
(***************************************************************************)
\* C18: kl_coeff changes only in the step that ends a _train call, after the
\* last optimizer step of the last epoch; there it is multiplied by 3/2 when
\* the last measured KL exceeds target_kl, by 2/3 when it is below
\* target_kl / 2, left alone otherwise, and then raised to 1e-6.  With
\* target_kl = 0.01: 0.2 and KL 0.03 give 0.3; 0.3 and KL 0.002 give 0.2.
C18_AdjustedOncePerTrain ==
    [][/\ (tpc = "sgd" /\ tpc' = "trained") =>
            /\ sgd_steps = cfg_ppo_epochs * (cfg.macro_batch \div cfg_batch_size)
            /\ kl_old_mean > cfg_target_kl =>
                  kl_coeff' = RatMax(Rat(3 * kl_coeff[1], 2 * kl_coeff[2]), <<1, 1>>)
            /\ 2 * kl_old_mean < cfg_target_kl =>
                  kl_coeff' = RatMax(Rat(2 * kl_coeff[1], 3 * kl_coeff[2]), <<1, 1>>)
            /\ (kl_old_mean <= cfg_target_kl /\ 2 * kl_old_mean >= cfg_target_kl) =>
                  kl_coeff' = RatMax(kl_coeff, <<1, 1>>)
            /\ (kl_coeff = <<200000, 1>> /\ kl_old_mean = 30) =>
                  kl_coeff' = <<300000, 1>>
            /\ (kl_coeff = <<300000, 1>> /\ kl_old_mean = 2) =>
                  kl_coeff' = <<200000, 1>>
       /\ ~(tpc = "sgd" /\ tpc' = "trained") => kl_coeff' = kl_coeff
       /\ (tpc' = "trained" /\ tpc # "trained") => tpc = "sgd"]_vars

\* the second _train call of two optimizer steps has ended: 0.2, then 0.3
\* after KL 0.03, is 0.2 again after KL 0.002
C18_Witness ==
    /\ tpc = "trained"
    /\ Len(trained) = 2
    /\ cfg.macro_batch = 2 * cfg_batch_size
    /\ kl_old_mean = 2
    /\ kl_coeff = <<200000, 1>>

(***************************************************************************)
(* Save, then load back (SpecRestore).                                     *)
(***************************************************************************)
LastSaved == saved[Len(saved)]

\* C20: when _update_pbt loads the learner's own policy after a save, with
\* no save in between, train_step, env_steps and kl_coeff become the values
\* they had when that save was taken.
C20_SaveThenLoadRestores ==
    [][(/\ tpc = "train" /\ tpc' # tpc
        /\ load_policy_id = policy_id
        /\ saved # <<>>) =>
          /\ train_step' = LastSaved.train_step
          /\ env_steps' = LastSaved.env_steps
          /\ kl_coeff' = LastSaved.kl_coeff]_vars

\* the own checkpoint was loaded back after training had moved past it:
\* a later weight version was broadcast, more env_steps were reported and
\* the last _train call, measuring KL 0.03, had raised kl_coeff
C20_Witness ==
    /\ tpc = "pbt_clear"
    /\ AppliedLoad = policy_id
    /\ saved # <<>>
    /\ train_step = LastSaved.train_step
    /\ env_steps = LastSaved.env_steps
    /\ kl_coeff = LastSaved.kl_coeff
    /\ \E i \in 1..Len(policy_worker_queue) : policy_worker_queue[i] > train_step
    /\ \E i \in 1..Len(report_queue) : report_queue[i].env_steps > env_steps
    /\ kl_old_mean = 30

(***************************************************************************)
(* Minibatch indices (SpecMinibatches).                                    *)
(***************************************************************************)
\* C19: a call of _get_minibatches that passes the assertions, with
\* macro_batch different from batch_size, returns experience_size /
\* batch_size minibatches of batch_size indices each, and every index of
\* [0, experience_size) occurs exactly once in them, whatever the shuffle.
C19_MinibatchesPartition ==
    (/\ minibatches.kind \notin {"not called", "AssertionError"}
     /\ minibatch_args.macro_batch # minibatch_args.batch_size) =>
        /\ minibatches.kind = "indices"
        /\ minibatch_args.experience_size % minibatch_args.batch_size = 0
        /\ Len(minibatches.value) =
             minibatch_args.experience_size \div minibatch_args.batch_size
        /\ \A k \in 1..Len(minibatches.value) :
             Len(minibatches.value[k]) = minibatch_args.batch_size
        /\ \A x \in 0..(minibatch_args.experience_size - 1) :
             Cardinality({kj \in (1..Len(minibatches.value)) \X
                                 (1..minibatch_args.batch_size) :
                            minibatches.value[kj[1]][kj[2]] = x}) = 1

\* recurrence == rollout, three minibatches of two indices out of two
\* shuffled mini-trajectories of three
C19_Witness ==
    /\ minibatches.kind = "indices"
    /\ minibatch_args.recurrence = 3
    /\ minibatch_args.rollout = 3
    /\ minibatch_args.experience_size = 6
    /\ minibatch_args.batch_size = 2
    /\ minibatches.value = <<<<3, 4>>, <<5, 0>>, <<1, 2>>>>

(***************************************************************************)
(* The stale head of a short pending list (SpecRollouts).                  *)
(***************************************************************************)
CallOfProcessRollouts == cpc = "process" /\ cpc' \in {"loop", "sleep"}

\* C23 as stated: every call of _process_rollouts that finds the oldest
\* pending rollout stale removes it from the head of the pending list and
\* releases its slot, however many rollouts are pending.
C23_AsStated ==
    [][(CallOfProcessRollouts /\ rollouts # <<>> /\ StaleAt(1)) =>
         /\ num_discarded_rollouts' > num_discarded_rollouts
         /\ traj_buffer_ready'[rollouts[1].env_idx] = 1
         /\ Len(rollouts') < Len(rollouts)]_vars

\* C23 amended: a call of _process_rollouts that finds fewer than
\* rollouts_in_macro_batch pending rollouts returns at once: the pending
\* list, the readiness bits and the discard counter are unchanged, stale head
\* or not; a call that finds at least rollouts_in_macro_batch rollouts and a
\* stale head removes the head, releases its slot and counts it.
C23_StaleHeadWaitsForFullList ==
    [][CallOfProcessRollouts =>
         IF Len(rollouts) < cfg.macro_batch \div cfg_rollout
         THEN /\ rollouts' = rollouts
              /\ traj_buffer_ready' = traj_buffer_ready
              /\ num_discarded_rollouts' = num_discarded_rollouts
              /\ experience_buffer_queue' = experience_buffer_queue
         ELSE StaleAt(1) =>
                /\ num_discarded_rollouts' > num_discarded_rollouts
                /\ traj_buffer_ready'[rollouts[1].env_idx] = 1
                /\ Len(rollouts') < Len(rollouts)]_vars

\* a call is about to run on a single stale rollout while a macro-batch
\* takes two
C23_Witness ==
    /\ cpc = "process"
    /\ Len(rollouts) = 1
    /\ rollouts_in_macro_batch = 2
    /\ StaleAt(1)

(***************************************************************************)
(* The macro-batch and the list returned (SpecRollouts).                   *)
(***************************************************************************)
\* the pending list after the discards of the call at hand
AfterDiscards ==
    IF Len(rollouts) < cfg.macro_batch \div cfg_rollout THEN rollouts
    ELSE BehindStalePrefix

LastEnqueued == experience_buffer_queue'[Len(experience_buffer_queue')]

WholeWindows(mb, recurrence) ==
    /\ Len(mb) % recurrence = 0
    /\ \A j \in 1..Len(mb) :
          LET first == ((j - 1) \div recurrence) * recurrence + 1
          IN  /\ mb[first] % recurrence = 0
              /\ mb[j] = mb[first] + (j - first)

\* C27 as stated: whenever _get_minibatches returns index arrays, each of
\* them is a concatenation of whole windows of recurrence consecutive
\* indices.
C27_AsStated ==
    minibatches.kind = "indices" =>
        \A k \in 1..Len(minibatches.value) :
            WholeWindows(minibatches.value[k], minibatch_args.recurrence)

\* both assertions passed, and a minibatch ends inside a window: batch_size
\* is not a multiple of recurrence
C27_WindowCut ==
    /\ minibatches.kind = "indices"
    /\ minibatch_args.rollout % minibatch_args.recurrence = 0
    /\ minibatch_args.experience_size % minibatch_args.batch_size = 0
    /\ minibatch_args.batch_size % minibatch_args.recurrence # 0
    /\ \E k \in 1..Len(minibatches.value) :
          ~WholeWindows(minibatches.value[k], minibatch_args.recurrence)

\* the training thread dequeues (line 722)
Dequeues == tpc = "get" /\ tpc' = "got"

\* C29: the terminate flag, once set, stays set; the sentinel is dequeued
\* only with the flag set; the training thread enters
\* _process_training_data only from the test of lines 726-727, with the
\* flag not set and a batch in hand, so that neither the sentinel nor a
\* batch dequeued with the flag set is trained; with the flag set the thread
\* leaves the loop.
C29_SentinelNeverTrained ==
    [][/\ terminate => terminate'
       /\ (Dequeues /\ data' = NoData) => terminate
       /\ (tpc = "got" /\ tpc' # "got") =>
             tpc' = IF terminate THEN "exited" ELSE "train"
       /\ (tpc' = "train" /\ tpc # "train") =>
             (tpc = "got" /\ ~terminate /\ data # NoData)
       /\ trained' # trained =>
             (tpc = "train" /\ data # NoData /\
              trained' = Append(trained, [id |-> data.id, loaded |-> load_policy_id,
                                         env_steps |-> data.env_steps]))
       /\ tpc' = "failed" => tpc = "failed"]_vars

\* the training thread has taken the sentinel from the queue and left its
\* loop after having trained a batch; the coordinator has joined it
C29_Witness ==
    /\ terminate
    /\ tpc = "exited"
    /\ data = NoData
    /\ cpc = "done"
    /\ experience_buffer_queue = <<>>
    /\ trained # <<>>

(***************************************************************************)
(* Every pending rollout leaves the list once (SpecRollouts).              *)
(***************************************************************************)
\* the rollout descriptors in TRAIN messages not yet taken in
AnnouncedInQueue ==
    SumField([i \in 1..Len(task_queue) |->
                [n |-> IF task_queue[i].type = "TRAIN"
                       THEN Len(task_queue[i].rollouts) ELSE 0]], "n")

\* the rollout descriptors that TRAIN tasks have appended to the pending
\* list: the slots the rollout worker has taken, less those it still fills
\* and those it announced in messages that wait in the task queue
Extracted == num_rollouts - Cardinality(filling) - AnnouncedInQueue

\* the descriptors that left the pending list: discarded, or assembled
Departed == num_discarded_rollouts + num_batches * rollouts_in_macro_batch

\* the descriptors are accounted for, no slot is described twice in the
\* pending list, no pending descriptor's slot is released
PendingAccounted ==
    /\ Extracted = Len(rollouts) + Departed
    /\ Cardinality(SlotsOf(rollouts)) = Len(rollouts)
    /\ \A s \in SlotsOf(rollouts) : traj_buffer_ready[s] = 0

\* C32: the descriptors appended to the pending list are those pending,
\* discarded and assembled; a pending descriptor's slot has its bit at 0 and
\* is described once; the learner sets a bit to 1 only in the step in which
\* the slot's descriptor leaves the list, and every descriptor that leaves
\* is counted once, as discarded or as a member of the batch assembled, and
\* has its bit set from 0 to 1 in that step.
C32_LeavesOnceReleasedOnce ==
    [][/\ PendingAccounted'
       /\ (cpc = "process" \/ traj_buffer_ready' # traj_buffer_ready) =>
            LET left == SlotsOf(rollouts) \ SlotsOf(rollouts')
                released == {s \in Slots : traj_buffer_ready[s] = 0 /\
                                           traj_buffer_ready'[s] = 1}
            IN  /\ released = left
                /\ released # {} => cpc = "process"
                /\ Departed' - Departed = Cardinality(left)
       /\ cpc # "process" =>
            (Departed' = Departed /\ Len(rollouts') >= Len(rollouts))]_vars

\* one descriptor was discarded, one assembled, one is pending, and the
\* rollout worker has taken a released slot again
C32_Witness ==
    /\ num_discarded_rollouts >= 1
    /\ num_batches >= 1
    /\ rollouts # <<>>
    /\ num_rollouts > NumSlots

(***************************************************************************)
(* The discarding rate (SpecRate).                                         *)
(***************************************************************************)
\* consecutive samples of the window are more than 1 second apart
SamplesApart ==
    \A i \in 1..(Len(discarded_experience_over_time) - 1) :
        discarded_experience_over_time[i + 1][1] - discarded_experience_over_time[i][1] > 1

\* C31 as stated: every call of _discarding_rate returns a number, also
\* when the window holds a single sample; the window holds at most 30
\* samples, more than 1 second apart.
C31_AsStated ==
    /\ discarding_rate.kind # "ZeroDivisionError"
    /\ Len(discarded_experience_over_time) <= WindowMaxLen
    /\ SamplesApart

\* the training thread called _discarding_rate on a window of one sample:
\* first and last are the same sample, line 767 divides by zero
C31_SingleSample ==
    /\ tpc = "failed"
    /\ discarding_rate.kind = "ZeroDivisionError"
    /\ Len(discarded_experience_over_time) = 1

(***************************************************************************)
(* checkpoint_tmp and load_from_checkpoint (SpecTmp).                      *)
(***************************************************************************)
\* _update_pbt calls load_from_checkpoint(load_policy_id) (lines 594-598)
LoadsPolicy == tpc = "train" /\ tpc' # "train" /\ load_policy_id # NoPolicy

\* C30 as stated: whenever load_from_checkpoint reads the directory of a
\* policy whose learner may be saving, the file it loads is the renamed
\* checkpoint with the greatest train_step in that directory.
C30_AsStated ==
    [][(LoadsPolicy /\ CheckpointDir(load_policy_id) # {}) =>
          /\ tpc' = "pbt_clear"
          /\ model' = NewestOf(CheckpointDir(load_policy_id)).model
          /\ kl_coeff' = NewestOf(CheckpointDir(load_policy_id)).kl_coeff]_vars

\* the learner has loaded the parameters of a checkpoint_tmp that is written
\* but not renamed: no renamed checkpoint of that policy holds them
C30_TmpLoaded ==
    /\ tpc = "pbt_clear"
    /\ AppliedLoad \in OtherPolicies
    /\ tmp_checkpoint[AppliedLoad] # NoFile
    /\ model = tmp_checkpoint[AppliedLoad].content.model
    /\ \A f \in other_checkpoints[AppliedLoad] : f.model # model

(***************************************************************************)
(* The back-pressure wait (SpecRollouts).                                  *)
(***************************************************************************)
\* the coordinator is in processing_experience_batch.wait() (line 862) with
\* the event cleared
CoordinatorWaits == cpc = "wait" /\ ~processing_experience_batch

\* the training thread is in safe_get (line 721) on an empty queue
TrainerWaits == tpc = "get" /\ experience_buffer_queue = <<>>

\* C28 as stated: the system never reaches a state where the coordinator
\* waits on the event while the training worker waits on an empty
\* experience queue.
C28_AsStated == ~(CoordinatorWaits /\ TrainerWaits)

\* no TERMINATE in the run: the training thread took both batches of the
\* queue between the coordinator's read of qsize() and its clear(), and the
\* two threads wait for each other
C28_Deadlock ==
    /\ CoordinatorWaits
    /\ TrainerWaits
    /\ ~terminate
    /\ Len(trained) >= 2

(***************************************************************************)
(* Copy, release, put (SpecAssemble).                                      *)
(***************************************************************************)
BatchSlots == SlotsOf(batch_rollouts)

\* C25: while the fields of a macro-batch are being copied the readiness
\* bits of its source slots are 0 and every copy taken holds what the slot
\* holds; the bits are set to 1 in one step that follows the copy of the last
\* field and leaves the experience queue alone; the coordinator puts a tuple
\* on the queue only after that step, and the tuple carries the copies.
C25_CopyReleasePut ==
    [][/\ cpc \in {"copy", "free"} =>
            /\ \A s \in BatchSlots : traj_buffer_ready[s] = 0
            /\ \A f \in 1..Len(buffer.copied) : \A i \in 1..Len(batch_rollouts) :
                  buffer.copied[f][i] = slot_version[batch_rollouts[i].env_idx]
       /\ (\E s \in BatchSlots : traj_buffer_ready[s] = 0 /\ traj_buffer_ready'[s] = 1) =>
            /\ cpc = "free" /\ cpc' = "put"
            /\ Len(buffer.copied) = Len(BufferFields)
            /\ \A s \in BatchSlots : traj_buffer_ready'[s] = 1
            /\ experience_buffer_queue' = experience_buffer_queue
       /\ (cpc' = "put" /\ cpc # "put") => cpc = "free"
       /\ Len(experience_buffer_queue') > Len(experience_buffer_queue) =>
            /\ cpc = "put"
            /\ LastEnqueued.policy_version = buffer.copied[Len(BufferFields)]]_vars

\* between the release and the put the rollout worker has taken a source
\* slot again and stamped it with a later version
C25_Witness ==
    /\ cpc = "put"
    /\ \E i \in 1..Len(batch_rollouts) :
          /\ traj_buffer_ready[batch_rollouts[i].env_idx] = 0
          /\ slot_version[batch_rollouts[i].env_idx] > buffer.copied[1][i]

(***************************************************************************)
(* Registration of the rollout tensors (SpecTensors).                      *)
(***************************************************************************)
ProcessesInitTensors ==
    /\ cpc = "drain" /\ task_queue # <<>>
    /\ Head(task_queue).type = "INIT_TENSORS"
    /\ task_queue' = Tail(task_queue)

KeysOf(items) == {items[j][1] : j \in 1..Len(items)}

\* C22: processing INIT_TENSORS with a key that is already registered ends
\* in the assertion error, and every handle registered before the message
\* is still registered under its key; with no such key every item of the
\* message is registered and the coordinator goes on.
C22_RegisterTwiceFails ==
    [][ProcessesInitTensors =>
         LET items == Head(task_queue).tensors
         IN  /\ \A k \in DOMAIN rollout_tensors :
                   /\ k \in DOMAIN rollout_tensors'
                   /\ rollout_tensors'[k] = rollout_tensors[k]
             /\ IF KeysOf(items) \cap DOMAIN rollout_tensors # {}
                THEN cpc' = "failed"
                ELSE /\ cpc' = cpc
                     /\ DOMAIN rollout_tensors' = DOMAIN rollout_tensors \cup KeysOf(items)
                     /\ \A j \in 1..Len(items) :
                           rollout_tensors'[items[j][1]] = items[j][2]]_vars

\* a message named a registered key: the coordinator has stopped, two
\* allocations are registered under different keys
C22_Witness ==
    /\ cpc = "failed"
    /\ \E k1, k2 \in DOMAIN rollout_tensors :
          rollout_tensors[k1] = 10 /\ rollout_tensors[k2] = 20

(***************************************************************************)
(* GAE of a rollout (SpecGae).                                             *)
(***************************************************************************)
\* gamma = 1, gae_lambda = 1, one rollout of length 4, rewards 1, dones 0,
\* values 0
GaeSanityInput ==
    /\ gae_args.gamma = 1 /\ gae_args.gae_lambda = 1
    /\ gae_args.rollouts = <<OnesRollout(4)>>

\* C21 as stated: on that input batch assembly yields the returns
\* [4, 3, 2, 1] and advantages equal to the returns.
C21_AsStated ==
    (gae_buffer # NotCalled /\ GaeSanityInput) =>
        /\ gae_buffer.kind = "gae"
        /\ gae_buffer.returns = <<<<4, 3, 2, 1>>>>
        /\ gae_buffer.advantages = gae_buffer.returns

\* the call on the input of the claim has raised
C21_SingleRolloutRaises ==
    /\ GaeSanityInput
    /\ gae_buffer.kind = "IndexError"

(***************************************************************************)
(* Shutdown (SpecTerminate).                                               *)
(***************************************************************************)
\* C17 as stated: once the coordinator has processed TERMINATE, the
\* coordinator eventually leaves its loop and pushes the sentinel, and the
\* training worker eventually leaves _train_loop.
C17_AsStated ==
    terminate ~> (cpc \in {"join", "done"} /\ tpc = "exited")

\* TERMINATE was processed with two batches in the experience queue: the
\* coordinator waits for the event, the training worker has left its loop
C17_Hang ==
    /\ terminate
    /\ cpc = "wait"
    /\ ~processing_experience_batch
    /\ tpc = "exited"
    /\ Len(experience_buffer_queue) > 1

(***************************************************************************)
(* The env_steps counter and the reports (SpecRestore).                    *)
(***************************************************************************)
\* env_steps at the end of initialization: that of the latest checkpoint
\* found at start-up, 0 without one
InitialEnvSteps ==
    IF initial_checkpoints = {} THEN 0
    ELSE LatestCheckpoint(initial_checkpoints).env_steps

\* the i-th report carries the initial env_steps plus the env_steps of the
\* first i batches processed
ReportIsInitialPlusProcessed(i) ==
    report_queue[i].env_steps =
        InitialEnvSteps + SumField(SubSeq(trained, 1, i), "env_steps")

ReportsAreInitialPlusProcessed ==
    \A i \in 1..Len(report_queue) : ReportIsInitialPlusProcessed(i)

\* the batch enqueued by a call carries the sums over its rollouts
EnqueuedSums ==
    (CallOfProcessRollouts /\ num_batches' = num_batches + 1) =>
        LET n == cfg.macro_batch \div cfg_rollout
        IN  /\ LastEnqueued.samples = SumField(SubSeq(AfterDiscards, 1, n), "length")
            /\ LastEnqueued.env_steps = SumField(SubSeq(AfterDiscards, 1, n), "env_steps")

\* the step of _process_training_data that loads the learner's own latest
\* checkpoint (lines 597-598 with load_policy_id == policy_id)
OwnLoadApplied ==
    tpc = "train" /\ tpc' = "pbt_clear" /\ load_policy_id = policy_id /\ checkpoints # {}

\* C33 as stated: after initialization env_steps never decreases, every
\* report carries the initial env_steps plus the env_steps of all batches
\* processed so far, and an enqueued batch carries the sums over its rollouts.
C33_AsStated ==
    [][/\ tpc # "init" => env_steps' >= env_steps
       /\ report_queue' # report_queue => ReportsAreInitialPlusProcessed'
       /\ EnqueuedSums]_vars

\* C33: after initialization env_steps changes only when a batch enters
\* _process_training_data; that step adds the batch's env_steps, and the
\* report of the batch carries that sum, whatever _update_pbt loads
\* afterwards; a LOAD_MODEL naming the learner's own policy then sets
\* env_steps to the value stored in its latest checkpoint, which may be
\* lower.  Up to the first batch processed after such a load, every report
\* is the initial env_steps plus the env_steps of the batches processed so
\* far; an enqueued batch carries the sums over exactly its rollouts.
C33_EnvStepsAccounting ==
    [][/\ (tpc # "init" /\ env_steps' # env_steps) => tpc = "train"
       /\ (tpc = "train" /\ tpc' \notin {"train", "failed"}) =>
             /\ stats'.env_steps = env_steps + data.env_steps
             /\ env_steps' = IF OwnLoadApplied
                             THEN LatestCheckpoint(checkpoints).env_steps
                             ELSE env_steps + data.env_steps
       /\ report_queue' # report_queue =>
             /\ report_queue' = Append(report_queue, stats)
             /\ Len(report_queue') = Len(trained)
             /\ (\A j \in 1..(Len(trained) - 1) : trained[j].loaded # policy_id) =>
                   ReportIsInitialPlusProcessed(Len(trained))'
       /\ EnqueuedSums]_vars

\* two batches were reported and the third one loaded the learner's own
\* checkpoint: env_steps is below what the last report carried
C33_Witness ==
    /\ tpc = "pbt_clear"
    /\ Len(trained) = 3
    /\ trained[3].loaded = policy_id
    /\ Len(report_queue) = 2
    /\ env_steps < report_queue[2].env_steps

(***************************************************************************)
(* Optimizer steps, broadcast and report of a batch (SpecTrain).           *)
(***************************************************************************)
\* the positions of _process_training_data from _update_pbt to the report
InBatch(pc) ==
    pc \in {"pbt_clear", "pbt_cfg", "pbt_cfg_clear", "sgd", "save_clear", "trained",
            "report"}

\* C34: _train starts with no optimizer step done; train_step moves only by
\* one, with each optimizer step; _train ends after ppo_epochs *
\* (experience_size / batch_size) optimizer steps, so that train_step has
\* advanced by that number since _train began; the end of _train is followed
\* by the one UPDATE_WEIGHTS message of the batch, which carries the
\* train_step reached, and that message by the one report of the batch.
C34_StepsBroadcastReport ==
    [][/\ (tpc \in {"pbt_cfg", "pbt_cfg_clear"} /\ tpc' = "sgd") => sgd_steps' = 0
       /\ (InBatch(tpc) /\ train_step' # train_step) =>
             /\ tpc = "sgd"
             /\ train_step' = train_step + 1
             /\ sgd_steps' = sgd_steps + 1
       /\ (tpc # "trained" /\ tpc' = "trained") =>
             /\ tpc = "sgd"
             /\ sgd_steps = cfg_ppo_epochs * (data.samples \div cfg_batch_size)
             /\ UNCHANGED <<train_step, policy_worker_queue, report_queue>>
       /\ (tpc = "trained" /\ tpc' # "trained") =>
             /\ tpc' = "report"
             /\ policy_worker_queue' = Append(policy_worker_queue, train_step)
             /\ UNCHANGED <<train_step, report_queue>>
       /\ (tpc = "report" /\ tpc' # "report") =>
             /\ tpc' = "loop"
             /\ Len(report_queue') = Len(report_queue) + 1
             /\ UNCHANGED <<train_step, policy_worker_queue>>
       /\ (tpc # "report" /\ tpc' = "report") => tpc = "trained"
       /\ (tpc \notin {"init", "trained"}) => policy_worker_queue' = policy_worker_queue
       /\ tpc # "report" => report_queue' = report_queue
       /\ tpc' # "init" =>
             /\ Len(policy_worker_queue') =
                  1 + Len(report_queue') + (IF tpc' = "report" THEN 1 ELSE 0)
             /\ Len(report_queue') =
                  Len(trained') - (IF InBatch(tpc') THEN 1 ELSE 0)]_vars

\* two batches of two minibatches each were trained, broadcast and reported
C34_Witness ==
    /\ tpc = "loop"
    /\ cfg.macro_batch = 2 * cfg_batch_size
    /\ policy_worker_queue = <<0, 2, 4>>
    /\ Len(report_queue) = 2
    /\ train_step = 4
=============================================================================
